---- MODULE Spec2Model ----
(***************************************************************************)
(* Model of the Modbus -> RDS work-site bridge: the APIClient session      *)
(* (login, apiCall, setWorkSiteFilled/Empty), the per-group Modbus         *)
(* connection engine (readInputsForGroup), the per-site debouncer          *)
(* (updateDebouncedState) and the sync cycle (syncOnce / mainLoop).        *)
(* Time is the value of Date.now() in milliseconds.                        *)
(***************************************************************************)
EXTENDS Integers, Sequences, FiniteSets, TLC

\* JS null / undefined / absent, for numeric fields (timestamps, tokens, clients).
null == 0 - 1

\* ---------------------------------------------------------------- constants

MODBUS_REQUEST_TIMEOUT_MS == 1000
POLL_INTERVAL_MS == 500
RECONNECT_BACKOFF_MS == 5000
FILL_DEBOUNCE_MS == 2000

EMPTY == "EMPTY"
FILLED == "FILLED"

\* ------------------------------------------------------------------- bounds

\* How many poll intervals of wall-clock time the model follows.
MaxElapsedTicks == 11
\* How many distinct session tokens the RDS server can issue.
MaxToken == 2
\* How many samples a run of disagreeing samples fed to the debouncer holds.
MaxRunSamples == 7

\* How many poll intervals the times of a debounce call made on its own span.
MaxDebTicks == 5

\* Date.now() when mainLoop starts: far above every interval of the program,
\* as the epoch clock is.
StartTime == 2 * RECONNECT_BACKOFF_MS
MaxTime == StartTime + MaxElapsedTicks * POLL_INTERVAL_MS

\* How long a TCP connect may take to succeed or fail; the other I/O (a read on
\* an open client, an HTTP call) is taken to answer within the same millisecond.
ConnectDelays == {0, POLL_INTERVAL_MS}
ReadDelays == {0}
HttpDelays == {0}

\* ------------------------------------------------------------ configuration

\* The site list: two sites on one PLC (a group of two, with different
\* defaults) and one site on another PLC (a single-site group).
SITES ==
  << [siteId |-> "PICK-01", ip |-> "10.6.44.70", port |-> 502, slaveId |-> 255,
      offset |-> 9, default |-> EMPTY],
     [siteId |-> "DROP-01", ip |-> "10.6.44.70", port |-> 502, slaveId |-> 255,
      offset |-> 10, default |-> FILLED],
     [siteId |-> "PICK-02", ip |-> "10.6.44.71", port |-> 502, slaveId |-> 255,
      offset |-> 12, default |-> EMPTY] >>

SiteIds == {SITES[i].siteId : i \in 1..Len(SITES)}

SiteOf(siteId) == CHOOSE s \in {SITES[i] : i \in 1..Len(SITES)} : s.siteId = siteId

groupKey_ipOnly(s) == s.ip

\* The Map key of a group: the template string `${s.ip}:${s.port}:${s.slaveId}`.
groupKey(s) == s.ip \o ":" \o ToString(s.port) \o ":" \o ToString(s.slaveId)

RECURSIVE groupLoop(_, _, _)
groupLoop(sites, i, acc) ==
  IF i > Len(sites) THEN acc
  ELSE LET s == sites[i]
           key == groupKey(s)
           hit == {k \in 1..Len(acc) : acc[k].key = key}
       IN IF hit = {}
          THEN groupLoop(sites, i + 1,
                 Append(acc, [key |-> key, ip |-> s.ip, port |-> s.port,
                              slaveId |-> s.slaveId, sites |-> <<s>>,
                              minOffset |-> s.offset, maxOffset |-> s.offset]))
          ELSE LET k == CHOOSE k \in hit : TRUE
                   g == acc[k]
                   g2 == [g EXCEPT !.sites = Append(@, s),
                                   !.minOffset = IF s.offset < @ THEN s.offset ELSE @,
                                   !.maxOffset = IF s.offset > @ THEN s.offset ELSE @]
               IN groupLoop(sites, i + 1, [acc EXCEPT ![k] = g2])

groupSitesByConnection(sites) ==
  LET m == groupLoop(sites, 1, <<>>)
  IN [k \in 1..Len(m) |->
        [key |-> m[k].key, ip |-> m[k].ip, port |-> m[k].port,
         slaveId |-> m[k].slaveId, sites |-> m[k].sites,
         minOffset |-> m[k].minOffset,
         length |-> m[k].maxOffset - m[k].minOffset + 1]]

GROUPS == groupSitesByConnection(SITES)

GroupIdx == 1..Len(GROUPS)

\* The index of the group a site belongs to.
GroupOfSite(siteId) ==
  CHOOSE k \in GroupIdx : \E j \in 1..Len(GROUPS[k].sites) : GROUPS[k].sites[j].siteId = siteId

GroupSiteIds(k) == {GROUPS[k].sites[j].siteId : j \in 1..Len(GROUPS[k].sites)}

\* ------------------------------------------------------------ Map helpers

MapSet(m, k, v) == [x \in DOMAIN m \cup {k} |-> IF x = k THEN v ELSE m[x]]
MapDelete(m, k) == [x \in DOMAIN m \ {k} |-> m[x]]

\* ---------------------------------------------------------------- debouncer

defaultToBool(def) == def = FILLED

\* The debounce state a site starts from when the Map holds none.
freshDebounce(defaultVal) == [lastOppositeStartTs |-> null, effectiveVal |-> defaultVal]

debounceStep_keepTimer(st, defaultVal, rawVal, now) ==
  IF rawVal = defaultVal
  THEN [st EXCEPT !.effectiveVal = defaultVal]
  ELSE IF st.lastOppositeStartTs = null
       THEN [lastOppositeStartTs |-> now, effectiveVal |-> defaultVal]
       ELSE IF now - st.lastOppositeStartTs >= FILL_DEBOUNCE_MS
            THEN [st EXCEPT !.effectiveVal = ~defaultVal]
            ELSE st

debounceStep_noSnapBack(st, defaultVal, rawVal, now) ==
  IF rawVal = defaultVal
  THEN [st EXCEPT !.lastOppositeStartTs = null]
  ELSE IF st.lastOppositeStartTs = null
       THEN [lastOppositeStartTs |-> now, effectiveVal |-> defaultVal]
       ELSE IF now - st.lastOppositeStartTs >= FILL_DEBOUNCE_MS
            THEN [st EXCEPT !.effectiveVal = ~defaultVal]
            ELSE st

debounceStep_acceptAtOnce(st, defaultVal, rawVal, now) ==
  IF rawVal = defaultVal
  THEN [lastOppositeStartTs |-> null, effectiveVal |-> defaultVal]
  ELSE IF st.lastOppositeStartTs = null
       THEN [lastOppositeStartTs |-> now, effectiveVal |-> ~defaultVal]
       ELSE IF now - st.lastOppositeStartTs >= FILL_DEBOUNCE_MS
            THEN [st EXCEPT !.effectiveVal = ~defaultVal]
            ELSE st

debounceStep_strictWindow(st, defaultVal, rawVal, now) ==
  IF rawVal = defaultVal
  THEN [lastOppositeStartTs |-> null, effectiveVal |-> defaultVal]
  ELSE IF st.lastOppositeStartTs = null
       THEN [lastOppositeStartTs |-> now, effectiveVal |-> defaultVal]
       ELSE IF now - st.lastOppositeStartTs > FILL_DEBOUNCE_MS
            THEN [st EXCEPT !.effectiveVal = ~defaultVal]
            ELSE st

debounceStep_inverted(st, defaultVal, rawVal, now) ==
  IF rawVal # defaultVal
  THEN [lastOppositeStartTs |-> null, effectiveVal |-> defaultVal]
  ELSE IF st.lastOppositeStartTs = null
       THEN [lastOppositeStartTs |-> now, effectiveVal |-> defaultVal]
       ELSE IF now - st.lastOppositeStartTs >= FILL_DEBOUNCE_MS
            THEN [st EXCEPT !.effectiveVal = ~defaultVal]
            ELSE st

debounceStep_restartTimer(st, defaultVal, rawVal, now) ==
  IF rawVal = defaultVal
  THEN [lastOppositeStartTs |-> null, effectiveVal |-> defaultVal]
  ELSE IF st.lastOppositeStartTs = null
       THEN [lastOppositeStartTs |-> now, effectiveVal |-> defaultVal]
       ELSE IF now - st.lastOppositeStartTs >= FILL_DEBOUNCE_MS
            THEN [st EXCEPT !.effectiveVal = ~defaultVal]
            ELSE [st EXCEPT !.lastOppositeStartTs = now]

\* The if/else of updateDebouncedState on the site's state st.
debounceStep(st, defaultVal, rawVal, now) ==
  IF rawVal = defaultVal
  THEN [lastOppositeStartTs |-> null, effectiveVal |-> defaultVal]
  ELSE IF st.lastOppositeStartTs = null
       THEN [lastOppositeStartTs |-> now, effectiveVal |-> defaultVal]
       ELSE IF now - st.lastOppositeStartTs >= FILL_DEBOUNCE_MS
            THEN [st EXCEPT !.effectiveVal = ~defaultVal]
            ELSE st

\* updateDebouncedState(site, rawVal, now) on the Map ds: the new Map and the
\* returned effective value.
updateDebouncedState(ds, site, rawVal, now) ==
  LET defaultVal == defaultToBool(site.default)
      st0 == IF site.siteId \in DOMAIN ds THEN ds[site.siteId]
             ELSE freshDebounce(defaultVal)
      st1 == debounceStep(st0, defaultVal, rawVal, now)
  IN [states |-> MapSet(ds, site.siteId, st1), ret |-> st1.effectiveVal]

\* A variant that empties the whole Map (debounceStates.clear()).
resetDebounceForSites_clear(ds, sites) == [x \in {} |-> 0]

resetDebounceForSites_noop(ds, sites) == ds

RECURSIVE resetDebounceForSites(_, _)
resetDebounceForSites(ds, sites) ==
  IF sites = <<>> THEN ds
  ELSE resetDebounceForSites(MapDelete(ds, Head(sites).siteId), Tail(sites))

\* ------------------------------------------------------ Modbus group engine

\* state = { client: null, lastAttemptMs: 0 }, created on first use of a group.
freshModbusState == [client |-> null, lastAttemptMs |-> 0]

inBackoff_never(state, now) == FALSE

inBackoff_inclusive(state, now) ==
  LET sinceLast == now - state.lastAttemptMs
  IN state.lastAttemptMs # 0 /\ sinceLast <= RECONNECT_BACKOFF_MS

inBackoff_halfWindow(state, now) ==
  LET sinceLast == now - state.lastAttemptMs
  IN state.lastAttemptMs # 0 /\ 2 * sinceLast < RECONNECT_BACKOFF_MS

\* The backoff test of readInputsForGroup, made when the client is absent.
inBackoff(state, now) ==
  LET sinceLast == now - state.lastAttemptMs
  IN state.lastAttemptMs # 0 /\ sinceLast < RECONNECT_BACKOFF_MS

readLength_one(group) == 1

\* The quantity of a read: forced to 1 for a single-site group.
readLength(group) == IF Len(group.sites) = 1 THEN 1 ELSE group.length

\* What the PLC side can do to one call: whether the TCP connect succeeds and how
\* long it takes, whether the read succeeds ("ok"), is rejected or times out
\* ("err") or resolves with something that holds no data array ("malformed"),
\* the bits of an ok response and how long the read takes.
ReadInputs(n) == UNION {[1..len -> BOOLEAN] : len \in 0..n}

ReadEnvs(group) ==
  [connectOk : BOOLEAN, dc : ConnectDelays, read : {"ok", "err", "malformed"},
   inputs : ReadInputs(readLength(group)), dr : ReadDelays]

\* A PLC that works and whose sensors agree with the sites' defaults: the
\* connect succeeds at once and every read answers the requested bits.
quietInputs(group) ==
  [i \in 1..readLength(group) |->
     IF \E j \in 1..Len(group.sites) : group.sites[j].offset - group.minOffset = i - 1
     THEN LET j == CHOOSE j \in 1..Len(group.sites) :
                     group.sites[j].offset - group.minOffset = i - 1
          IN defaultToBool(group.sites[j].default)
     ELSE FALSE]

QuietReadEnvs(group) ==
  {[connectOk |-> TRUE, dc |-> 0, read |-> "ok", inputs |-> quietInputs(group), dr |-> 0]}

\* readInputsForGroup(group) called at time now on the Map ms: the new Map, the
\* returned result, the Modbus operations issued (with the time each was
\* issued at) and the time at which the call returns.
\* A variant that counts the backoff return itself as an attempt.
backoffReturn_stamps(ms, key, state0, now) ==
  [states |-> MapSet(ms, key, [state0 EXCEPT !.lastAttemptMs = now]),
   result |-> [status |-> "backoff", inputs |-> <<>>, message |-> ""],
   io |-> <<>>, end |-> now]

\* The return inside the backoff window: no I/O, the entry of the Map (created
\* above when it was missing) left as it is, lastAttemptMs included.
backoffReturn(ms, key, state0, now) ==
  [states |-> MapSet(ms, key, state0),
   result |-> [status |-> "backoff", inputs |-> <<>>, message |-> ""],
   io |-> <<>>, end |-> now]

readInputsForGroup(ms, gk, now, env) ==
  LET group == GROUPS[gk]
      state0 == IF group.key \in DOMAIN ms THEN ms[group.key] ELSE freshModbusState
      connectOp == [op |-> "connect", at |-> now, addr |-> 0, len |-> 0]
  IN IF state0.client = null /\ inBackoff(state0, now)
     THEN backoffReturn(ms, group.key, state0, now)
     ELSE IF state0.client = null /\ ~env.connectOk
     THEN [states |-> MapSet(ms, group.key, [state0 EXCEPT !.lastAttemptMs = now]),
           result |-> [status |-> "error", inputs |-> <<>>, message |-> "connect failed"],
           io |-> <<connectOp>>, end |-> now + env.dc]
     ELSE LET connected == state0.client = null
              state1 == IF connected
                        THEN [client |-> gk, lastAttemptMs |-> now]
                        ELSE state0
              t1 == IF connected THEN now + env.dc ELSE now
              t2 == t1 + env.dr
              io1 == IF connected THEN <<connectOp>> ELSE <<>>
              readOp == [op |-> "read", at |-> t1, addr |-> group.minOffset,
                         len |-> readLength(group)]
              closeOp == [op |-> "close", at |-> t2, addr |-> 0, len |-> 0]
          IN CASE env.read = "ok" ->
                    [states |-> MapSet(ms, group.key, state1),
                     result |-> [status |-> "ok", inputs |-> env.inputs, message |-> ""],
                     io |-> io1 \o <<readOp>>, end |-> t2]
               [] env.read = "malformed" ->
                    [states |-> MapSet(ms, group.key, state1),
                     result |-> [status |-> "error", inputs |-> <<>>,
                                 message |-> "invalid readDiscreteInputs response format"],
                     io |-> io1 \o <<readOp>>, end |-> t2]
               [] OTHER ->
                    [states |-> MapSet(ms, group.key,
                                       [client |-> null, lastAttemptMs |-> t2]),
                     result |-> [status |-> "error", inputs |-> <<>>,
                                 message |-> "readDiscreteInputs failed"],
                     io |-> io1 \o <<readOp, closeOp>>, end |-> t2]

inBackoffOld_never(state, now) == FALSE

\* The backoff test of the exception-based readInputsForGroup.
inBackoffOld(state, now) == now - state.lastAttemptMs < RECONNECT_BACKOFF_MS

\* readInputsForGroup(group) of src/modbus-sync-worksites.js, which throws where
\* the later one returns a tagged result: status "error" stands for a throw
\* (caught by syncOnce), "ok" for the returned inputs.  Its state field
\* lastAttempt is kept under the name lastAttemptMs.
readInputsForGroupOld(ms, gk, now, env) ==
  LET group == GROUPS[gk]
      state0 == IF group.key \in DOMAIN ms THEN ms[group.key] ELSE freshModbusState
      connectOp == [op |-> "connect", at |-> now, addr |-> 0, len |-> 0]
  IN IF state0.client = null /\ inBackoffOld(state0, now)
     THEN [states |-> MapSet(ms, group.key, state0),
           result |-> [status |-> "error", inputs |-> <<>>,
                       message |-> "reconnect backoff"],
           io |-> <<>>, end |-> now]
     ELSE IF state0.client = null /\ ~env.connectOk
     THEN [states |-> MapSet(ms, group.key, [state0 EXCEPT !.lastAttemptMs = now]),
           result |-> [status |-> "error", inputs |-> <<>>, message |-> "connect failed"],
           io |-> <<connectOp>>, end |-> now + env.dc]
     ELSE LET connected == state0.client = null
              state1 == IF connected
                        THEN [client |-> gk, lastAttemptMs |-> now]
                        ELSE state0
              t1 == IF connected THEN now + env.dc ELSE now
              t2 == t1 + env.dr
              io1 == IF connected THEN <<connectOp>> ELSE <<>>
              readOp == [op |-> "read", at |-> t1, addr |-> group.minOffset,
                         len |-> readLength(group)]
              closeOp == [op |-> "close", at |-> t2, addr |-> 0, len |-> 0]
          IN IF env.read = "ok"
             THEN [states |-> MapSet(ms, group.key, state1),
                   result |-> [status |-> "ok", inputs |-> env.inputs, message |-> ""],
                   io |-> io1 \o <<readOp>>, end |-> t2]
             ELSE [states |-> MapSet(ms, group.key,
                                     [client |-> null, lastAttemptMs |-> t2]),
                   result |-> [status |-> "error", inputs |-> <<>>,
                               message |-> IF env.read = "malformed"
                                           THEN "invalid readDiscreteInputs response format"
                                           ELSE "readDiscreteInputs failed"],
                   io |-> io1 \o <<readOp, closeOp>>, end |-> t2]

\* The readInputsForGroup of the file the run is made with.
readCall(c, ms, gk, now, env) ==
  IF c.kind = "old" THEN readInputsForGroupOld(ms, gk, now, env)
  ELSE readInputsForGroup(ms, gk, now, env)

\* ---------------------------------------------------------------- RDS client

Tokens == 1..MaxToken

\* response.ok of fetch
responseOk(status) == status >= 200 /\ status <= 299

\* Body texts: empty, text that is no JSON, and two JSON documents.
Bodies == {"", "not json", "[]", "[1]"}
isJson(text) == text \in {"[]", "[1]"}

\* The RDS answers to POST /admin/login: the status, the JSESSIONID of the
\* Set-Cookie header (null: no such cookie) and the body.
LoginResponses ==
  {[status |-> 200, cookie |-> t, body |-> "[]"] : t \in Tokens}
    \cup {[status |-> 200, cookie |-> null, body |-> "[]"],
          [status |-> 200, cookie |-> 1, body |-> ""],
          [status |-> 500, cookie |-> null, body |-> ""]}

\* The RDS answers to a work-site request.
ApiResponses ==
  {[status |-> 200, body |-> b] : b \in {"", "not json", "[1]"}}
    \cup {[status |-> s, body |-> "not json"] : s \in {400, 401, 403, 500}}

\* One HTTP exchange as seen on the wire.
loginExchange(lr) ==
  [op |-> "login", path |-> "/admin/login", ids |-> <<>>, cookie |-> null,
   status |-> lr.status]
fetchExchange(req, sid, r) ==
  [op |-> "fetch", path |-> req.path, ids |-> req.ids, cookie |-> sid,
   status |-> r.status]

login_neverThrows(sid, lr) ==
  IF ~responseOk(lr.status) THEN [sid |-> sid, threw |-> FALSE]
  ELSE [sid |-> lr.cookie, threw |-> FALSE]

\* APIClient.login() with the session sid, answered by lr: the session
\* afterwards and whether login threw.
login(sid, lr) ==
  IF ~responseOk(lr.status) THEN [sid |-> sid, threw |-> TRUE]
  ELSE IF lr.cookie = null THEN [sid |-> null, threw |-> TRUE]
  ELSE IF ~isJson(lr.body) THEN [sid |-> lr.cookie, threw |-> TRUE]
  ELSE [sid |-> lr.cookie, threw |-> FALSE]

isSessionExpired_with400(status) == status \in {400, 401, 403}

isSessionExpired_only401(status) == status \in {401}

\* [401, 403].includes(response.status)
isSessionExpired(status) == status \in {401, 403}

\* The value apiCall has not returned (it threw).
noValue == [kind |-> "none", text |-> ""]

\* Steps 4 and 5 of apiCall (the class's second, effective definition): the
\* error check on the last response and response.json().
apiCallFinish(sid, response, trace) ==
  IF ~responseOk(response.status)
  THEN [sid |-> sid, threw |-> TRUE, ret |-> noValue, trace |-> trace]
  ELSE IF ~isJson(response.body)
  THEN [sid |-> sid, threw |-> TRUE, ret |-> noValue, trace |-> trace]
  ELSE [sid |-> sid, threw |-> FALSE,
        ret |-> [kind |-> "json", text |-> response.body], trace |-> trace]

\* apiCall(path, options) of the class's second definition, which replaces the
\* first: env holds the RDS answers to the initial login (made only without a
\* session), the request, the re-login and the resent request.
apiCall(sid, req, env) ==
  LET L1 == IF sid = null THEN login(sid, env.login1)
            ELSE [sid |-> sid, threw |-> FALSE]
      tr0 == IF sid = null THEN <<loginExchange(env.login1)>> ELSE <<>>
  IN IF L1.threw
     THEN [sid |-> L1.sid, threw |-> TRUE, ret |-> noValue, trace |-> tr0]
     ELSE LET tr1 == Append(tr0, fetchExchange(req, L1.sid, env.r1))
          IN IF isSessionExpired(env.r1.status)
             THEN LET L2 == login(L1.sid, env.login2)
                      tr2 == Append(tr1, loginExchange(env.login2))
                  IN IF L2.threw
                     THEN [sid |-> L2.sid, threw |-> TRUE, ret |-> noValue,
                           trace |-> tr2]
                     ELSE apiCallFinish(L2.sid, env.r2,
                            Append(tr2, fetchExchange(req, L2.sid, env.r2)))
             ELSE apiCallFinish(L1.sid, env.r1, tr1)

\* The success path of the class's first apiCall definition: text, null for an
\* empty body, JSON.parse with the raw text as fallback.
apiCallFirstFinish(sid, response, trace) ==
  IF ~responseOk(response.status)
  THEN [sid |-> sid, threw |-> TRUE, ret |-> noValue, trace |-> trace]
  ELSE IF response.body = ""
  THEN [sid |-> sid, threw |-> FALSE, ret |-> [kind |-> "null", text |-> ""],
        trace |-> trace]
  ELSE IF isJson(response.body)
  THEN [sid |-> sid, threw |-> FALSE,
        ret |-> [kind |-> "json", text |-> response.body], trace |-> trace]
  ELSE [sid |-> sid, threw |-> FALSE,
        ret |-> [kind |-> "text", text |-> response.body], trace |-> trace]

\* The class's first apiCall definition (shadowed by the second): no login
\* before the request; the cookie is sent only when a session exists.
apiCallFirst(sid, req, env) ==
  LET tr1 == <<fetchExchange(req, sid, env.r1)>>
  IN IF isSessionExpired(env.r1.status)
     THEN LET L2 == login(sid, env.login2)
              tr2 == Append(tr1, loginExchange(env.login2))
          IN IF L2.threw
             THEN [sid |-> L2.sid, threw |-> TRUE, ret |-> noValue, trace |-> tr2]
             ELSE apiCallFirstFinish(L2.sid, env.r2,
                    Append(tr2, fetchExchange(req, L2.sid, env.r2)))
     ELSE apiCallFirstFinish(sid, env.r1, tr1)

ApiEnvs == [login1 : LoginResponses, r1 : ApiResponses,
            login2 : LoginResponses, r2 : ApiResponses]

\* setWorkSiteFilled / setWorkSiteEmpty: the request each one hands to apiCall.
setWorkSiteFilled(worksiteName) ==
  [path |-> "/api/work-sites/worksiteFiled", ids |-> <<worksiteName>>]
setWorkSiteEmpty(worksiteName) ==
  [path |-> "/api/work-sites/worksiteUnFiled", ids |-> <<worksiteName>>]

writeRequest_swapped(site, filledBool) ==
  IF filledBool THEN setWorkSiteEmpty(site.siteId) ELSE setWorkSiteFilled(site.siteId)

\* The call writeWorksiteState makes for a value.
writeRequest(site, filledBool) ==
  IF filledBool THEN setWorkSiteFilled(site.siteId) ELSE setWorkSiteEmpty(site.siteId)

writeWorksiteState_rethrow(sid, site, filledBool, env) ==
  LET r == apiCall(sid, writeRequest(site, filledBool), env)
  IN [sid |-> r.sid, failed |-> r.threw, threw |-> r.threw,
      req |-> writeRequest(site, filledBool), trace |-> r.trace]

\* writeWorksiteState(api, site, filledBool, context): the try/catch around the
\* call; failed says the catch branch ran, threw that the function itself threw.
writeWorksiteState(sid, site, filledBool, env) ==
  LET r == apiCall(sid, writeRequest(site, filledBool), env)
  IN [sid |-> r.sid, failed |-> r.threw, threw |-> FALSE,
      req |-> writeRequest(site, filledBool), trace |-> r.trace]

setSitesDefault_opposite(sites) ==
  [i \in 1..Len(sites) |->
     [siteId |-> sites[i].siteId, val |-> ~defaultToBool(sites[i].default)]]

\* setSitesDefault(api, sites, context): the writes it makes, in order.
setSitesDefault(sites) ==
  [i \in 1..Len(sites) |->
     [siteId |-> sites[i].siteId, val |-> defaultToBool(sites[i].default)]]

\* ------------------------------------------------------------------- state

VARIABLES
  clock,           \* Date.now()
  sessionId,       \* APIClient.sessionId
  modbusStates,    \* Map group.key -> { client, lastAttemptMs }
  debounceStates,  \* Map siteId -> { lastOppositeStartTs, effectiveVal }
  pc,              \* where mainLoop / syncOnce stands
  tickStart,       \* start of mainLoop's current iteration
  gi,              \* index in GROUPS of the group of the for loop
  si,              \* index in group.sites of the site of the inner loop (0: none)
  inputs,          \* result.inputs of the group's read
  wq,              \* the writes the current step still has to make
  tickGrp,         \* this tick: per group, the read's status and Modbus operations
  tickWrites,      \* this tick: the calls of writeWorksiteState, in order
  published,       \* per site, the last value handed to writeWorksiteState
  rdsHolds,        \* per site, the value of the last write RDS answered with a
                   \* success ("none": no write of this process got through;
                   \* "untracked": the run does not follow what RDS holds)
  runStart,        \* per site, the time of the first sample of the current run of
                   \* ok samples that disagree with the default (null: no run)
  lastFail,        \* per group, the failed connect or read that left it without
                   \* a working client (null: the last call did not fail)
  wildGroup,       \* the group whose PLC may misbehave in this run
  proc,            \* the Node process: its phase, its exit code and the clients
                   \* close() was called on by a signal handler
  flight,          \* the RDS calls awaited and the syncOnce calls unsettled
  tickLogin,       \* this tick: "failed" when syncOnce's own login threw
  cfg,             \* a site list handed to the startup code on its own, and
                   \* what the startup code made of it
  apiLast,         \* the last apiCall made on its own, with its outcome
  debLast          \* the last updateDebouncedState made on its own

vars == <<clock, sessionId, modbusStates, debounceStates, pc, tickStart, gi, si,
          inputs, wq, tickGrp, tickWrites, published, rdsHolds, runStart,
          lastFail,
          wildGroup, proc, cfg, tickLogin, flight, apiLast, debLast>>

progVars == <<clock, sessionId, modbusStates, debounceStates, pc, tickStart, gi,
              si, inputs, wq>>
ghostVars == <<tickGrp, tickWrites, published, rdsHolds, runStart, lastFail>>

EmptyMap == [x \in {} |-> 0]

\* Nothing in flight is followed.
noFlight == [tracked |-> FALSE, rds |-> {}, syncs |-> 0]

\* The process once the module is loaded and mainLoop runs.
procRunning == [phase |-> "running", exitCode |-> null, closed |-> {}]

noFail == [doneAt |-> null, armedAt |-> null]
noTickGrp ==
  [k \in GroupIdx |-> [status |-> "none", message |-> "", io |-> <<>>, prevFail |-> noFail]]

\* The environments a run is checked against: the PLC of one group may do
\* anything (refuse or delay the connect, fail or cut short a read, report any
\* bits) while the PLCs of the other groups are quiet; RDS may answer anything.
EnvReadEnvs(wild, k) ==
  IF k = wild THEN ReadEnvs(GROUPS[k]) ELSE QuietReadEnvs(GROUPS[k])

\* A connect that takes longer than a poll interval to succeed, for the runs
\* that follow the calls in flight.
SlowReadEnvs(k) ==
  IF flight.tracked /\ k = wildGroup
  THEN {[connectOk |-> TRUE, dc |-> 2 * POLL_INTERVAL_MS, read |-> "ok",
         inputs |-> quietInputs(GROUPS[k]), dr |-> 0]}
  ELSE {}

\* The state when mainLoop is entered, but for the session and the debounce Map.
InitLoop ==
  /\ clock = StartTime
  /\ modbusStates = EmptyMap
  /\ pc = "start"
  /\ tickStart = StartTime
  /\ gi = 0
  /\ si = 0
  /\ inputs = <<>>
  /\ wq = <<>>
  /\ tickGrp = noTickGrp
  /\ tickWrites = <<>>
  /\ published = [s \in SiteIds |-> "none"]
  /\ runStart = [s \in SiteIds |-> null]
  /\ lastFail = [k \in GroupIdx |-> noFail]
  /\ apiLast = [kind |-> "none"]
  /\ debLast = [kind |-> "none"]
  /\ proc = procRunning
  /\ cfg = [kind |-> "none"]

Init ==
  /\ wildGroup \in GroupIdx
  /\ sessionId = null
  /\ debounceStates = EmptyMap
  /\ rdsHolds = [s \in SiteIds |-> "untracked"]
  /\ tickLogin = "untracked"
  /\ flight = noFlight
  /\ InitLoop

\* The RDS answers the sync loop is run against.
TickLoginResponses ==
  {[status |-> 200, cookie |-> 1, body |-> "[]"],
   [status |-> 500, cookie |-> null, body |-> ""]}
TickApiResponses ==
  {[status |-> 200, body |-> "[1]"],
   [status |-> 400, body |-> "not json"],
   [status |-> 401, body |-> "not json"]}
TickApiEnvs == [login1 : TickLoginResponses, r1 : TickApiResponses,
                login2 : TickLoginResponses, r2 : TickApiResponses]

boolName(b) == IF b THEN "true" ELSE "false"

\* ----------------------------------------------------------- the sync cycle

\* mainLoop takes start = Date.now() and calls syncOnce, which logs in when the
\* client holds no session and goes on whether or not that login succeeds.
SyncStart ==
  /\ pc = "start"
  /\ ~flight.tracked \/ sessionId # null \/ "login" \in flight.rds
  /\ flight' = IF ~flight.tracked THEN flight
               ELSE IF sessionId = null
               THEN [flight EXCEPT !.rds = @ \ {"login"}]
               ELSE [flight EXCEPT !.syncs = @ + 1]
  /\ tickStart' = clock
  /\ IF sessionId = null
     THEN \E lr \in TickLoginResponses, d \in HttpDelays :
            /\ clock + d <= MaxTime
            /\ clock' = clock + d
            /\ sessionId' = login(sessionId, lr).sid
            /\ tickLogin' = IF tickLogin = "untracked" THEN tickLogin
                            ELSE IF login(sessionId, lr).threw THEN "failed"
                            ELSE "none"
     ELSE UNCHANGED <<clock, sessionId, tickLogin>>
  /\ pc' = "group"
  /\ gi' = 1
  /\ si' = 0
  /\ UNCHANGED <<modbusStates, debounceStates, inputs, wq>>
  /\ UNCHANGED ghostVars
  /\ UNCHANGED <<wildGroup, proc, cfg, apiLast, debLast>>

\* The failure a call of readInputsForGroup leaves behind: the time the failed
\* operation ended at, and the time its attempt counts from (the start of a
\* failed connect, the end of a failed read).
failAfter(k, r, now) ==
  CASE r.result.status = "backoff" -> lastFail[k]
    [] r.result.status = "ok" -> noFail
    [] r.result.message = "reconnect backoff" -> lastFail[k]
    [] r.result.message = "connect failed" -> [doneAt |-> r.end, armedAt |-> now]
    [] OTHER -> [doneAt |-> r.end, armedAt |-> r.end]

\* The sites whose run of disagreeing samples a result of the read ends.
runAfterRead(k, r) ==
  [s \in SiteIds |->
     IF s \in GroupSiteIds(k) /\ r.result.status # "ok" THEN null ELSE runStart[s]]

syncBranch_noBackoff(status) ==
  IF status = "ok" THEN "sites" ELSE "defaults"

\* What syncOnce does with the status of a read: `continue` on backoff, the
\* reset and the defaults on error, the walk over the sites on ok.
syncBranch(status) ==
  CASE status = "backoff" -> "skip"
    [] status = "error" -> "defaults"
    [] OTHER -> "sites"

\* One iteration of `for (const group of GROUPS)` up to its first write: the
\* read, then `continue` on backoff, the reset and the default writes on
\* error, the walk over the sites on ok.
ReadGroup ==
  /\ pc = "group"
  /\ gi <= Len(GROUPS)
  /\ \E r \in {readCall(cfg, modbusStates, gi, clock, env) :
                 env \in EnvReadEnvs(wildGroup, gi) \cup SlowReadEnvs(gi)} :
       LET group == GROUPS[gi]
       IN /\ r.end <= MaxTime
          /\ clock' = r.end
          /\ modbusStates' = r.states
          /\ tickGrp' = [tickGrp EXCEPT ![gi] =
                            [status |-> r.result.status,
                             message |-> r.result.message, io |-> r.io,
                             prevFail |-> lastFail[gi]]]
          /\ lastFail' = [lastFail EXCEPT ![gi] = failAfter(gi, r, clock)]
          /\ runStart' = runAfterRead(gi, r)
          /\ CASE syncBranch(r.result.status) = "skip" ->
                    /\ gi' = gi + 1
                    /\ UNCHANGED <<pc, si, inputs, wq, debounceStates>>
               [] syncBranch(r.result.status) = "defaults" ->
                    /\ debounceStates' = resetDebounceForSites(debounceStates, group.sites)
                    /\ wq' = [i \in 1..Len(group.sites) |->
                                [siteId |-> setSitesDefault(group.sites)[i].siteId,
                                 val |-> setSitesDefault(group.sites)[i].val,
                                 at |-> r.end, raw |-> "error"]]
                    /\ pc' = "write"
                    /\ si' = 0
                    /\ UNCHANGED <<gi, inputs>>
               [] OTHER ->
                    /\ inputs' = r.result.inputs
                    /\ pc' = "site"
                    /\ si' = 1
                    /\ UNCHANGED <<gi, wq, debounceStates>>
  /\ UNCHANGED <<sessionId, tickStart, tickWrites, published, rdsHolds>>
  /\ UNCHANGED <<wildGroup, proc, cfg, tickLogin, flight, apiLast, debLast>>

missingValue_offByOne(inp, idx) == ~(idx >= 0 /\ idx + 1 < Len(inp))

\* typeof inputs[idx] === "undefined": the response holds no element idx.
missingValue(inp, idx) == ~(idx >= 0 /\ idx < Len(inp))

\* One iteration of `for (const s of sites)` up to its write: a missing value
\* resets the site and writes its default, a value is debounced.
ProcessSite ==
  /\ pc = "site"
  /\ LET group == GROUPS[gi]
         s == group.sites[si]
         idx == s.offset - group.minOffset
         missing == missingValue(inputs, idx)
     IN IF missing
        THEN /\ debounceStates' = resetDebounceForSites(debounceStates, <<s>>)
             /\ wq' = [i \in 1..1 |->
                         [siteId |-> setSitesDefault(<<s>>)[i].siteId,
                          val |-> setSitesDefault(<<s>>)[i].val, at |-> clock,
                          raw |-> "missing"]]
             /\ runStart' = [runStart EXCEPT ![s.siteId] = null]
        ELSE LET rawVal == inputs[idx + 1]
                 now == clock
                 u == updateDebouncedState(debounceStates, s, rawVal, now)
             IN /\ debounceStates' = u.states
                /\ wq' = <<[siteId |-> s.siteId, val |-> u.ret, at |-> now,
                             raw |-> boolName(rawVal)]>>
                /\ runStart' = [runStart EXCEPT ![s.siteId] =
                                  IF rawVal = defaultToBool(s.default) THEN null
                                  ELSE IF @ = null THEN now ELSE @]
  /\ pc' = "write"
  /\ UNCHANGED <<clock, sessionId, modbusStates, tickStart, gi, si, inputs>>
  /\ UNCHANGED <<tickGrp, tickWrites, published, rdsHolds, lastFail>>
  /\ UNCHANGED <<wildGroup, proc, cfg, tickLogin, flight, apiLast, debLast>>

\* One `await writeWorksiteState(...)`: the head of the pending writes. An
\* exception leaving it would leave syncOnce and be caught by mainLoop.
WriteSite ==
  /\ pc = "write"
  /\ wq # <<>>
  /\ ~flight.tracked \/ Head(wq).siteId \in flight.rds
  /\ flight' = IF ~flight.tracked THEN flight
               ELSE [flight EXCEPT !.rds = @ \ {Head(wq).siteId}]
  /\ \E r \in {writeWorksiteState(sessionId, SiteOf(Head(wq).siteId), Head(wq).val, env) :
                 env \in TickApiEnvs},
        d \in HttpDelays :
       LET w == Head(wq)
           n == Len(GROUPS[gi].sites)
       IN /\ clock + d <= MaxTime
          /\ clock' = clock + d
          /\ sessionId' = r.sid
          /\ tickWrites' = Append(tickWrites,
               [siteId |-> w.siteId, val |-> w.val, at |-> w.at, raw |-> w.raw,
                req |-> r.req,
                relogin |-> /\ flight.tracked
                            /\ \E i, j \in 1..Len(r.trace) :
                                 /\ i < j
                                 /\ r.trace[i].op = "fetch"
                                 /\ r.trace[j].op = "login",
                hadSession |-> tickLogin # "untracked" /\ sessionId # null,
                loginFirst |-> /\ tickLogin # "untracked"
                               /\ r.trace # <<>>
                               /\ r.trace[1].op = "login",
                failed |-> r.failed, prev |-> published[w.siteId]])
          /\ published' = [published EXCEPT ![w.siteId] = boolName(w.val)]
          /\ rdsHolds' = IF r.failed \/ rdsHolds[w.siteId] = "untracked" THEN rdsHolds
                          ELSE [rdsHolds EXCEPT ![w.siteId] = boolName(w.val)]
          /\ wq' = Tail(wq)
          /\ IF r.threw
             THEN /\ pc' = "sleep"
                  /\ UNCHANGED <<gi, si>>
             ELSE IF Tail(wq) # <<>>
             THEN UNCHANGED <<pc, gi, si>>
             ELSE IF si # 0 /\ si < n
             THEN /\ pc' = "site"
                  /\ si' = si + 1
                  /\ UNCHANGED gi
             ELSE /\ pc' = "group"
                  /\ gi' = gi + 1
                  /\ si' = 0
  /\ UNCHANGED <<modbusStates, debounceStates, tickStart, inputs>>
  /\ UNCHANGED <<tickGrp, runStart, lastFail>>
  /\ UNCHANGED <<wildGroup, proc, cfg, tickLogin, apiLast, debLast>>

\* The promise of the syncOnce call has settled: its for loop ran out of groups
\* or an exception left it.
syncSettled(p, g) == (p = "group" /\ g > Len(GROUPS)) \/ p = "sleep"

tickOver_notAwaited(p, g) == p \in {"group", "site", "write", "sleep"}

tickOver_noCatch(p, g) == p = "group" /\ g > Len(GROUPS)

\* The call of syncOnce in mainLoop is over: the for loop ran out of groups, or
\* an exception left syncOnce and the catch of mainLoop took it.
tickOver(p, g) == IF p = "group" THEN g > Len(GROUPS) ELSE p = "sleep"

\* syncOnce returns (or threw into mainLoop's catch); mainLoop sleeps for what
\* is left of POLL_INTERVAL_MS and starts over.
SyncEnd ==
  /\ tickOver(pc, gi)
  /\ LET elapsed == clock - tickStart
         wait == IF POLL_INTERVAL_MS - elapsed > 0 THEN POLL_INTERVAL_MS - elapsed ELSE 0
     IN /\ clock + wait <= MaxTime
        /\ clock' = clock + wait
  /\ pc' = "start"
  /\ gi' = 0
  /\ si' = 0
  /\ inputs' = <<>>
  /\ wq' = <<>>
  /\ tickGrp' = noTickGrp
  /\ tickWrites' = <<>>
  /\ tickLogin' = IF tickLogin = "untracked" THEN tickLogin ELSE "none"
  /\ flight' = IF ~flight.tracked \/ ~syncSettled(pc, gi) THEN flight
               ELSE [flight EXCEPT !.syncs = @ - 1]
  /\ UNCHANGED <<sessionId, modbusStates, debounceStates, tickStart>>
  /\ UNCHANGED <<published, rdsHolds, runStart, lastFail>>
  /\ UNCHANGED <<wildGroup, proc, cfg, apiLast, debLast>>

Next == SyncStart \/ ReadGroup \/ ProcessSite \/ WriteSite \/ SyncEnd

Spec == Init /\ [][Next]_vars

\* The sync loop, followed together with what RDS holds for the sites of the
\* group whose PLC may fail.
InitRds ==
  /\ wildGroup \in GroupIdx
  /\ sessionId = null
  /\ debounceStates = EmptyMap
  /\ rdsHolds = [s \in SiteIds |->
                   IF s \in GroupSiteIds(wildGroup) THEN "none" ELSE "untracked"]
  /\ tickLogin = "untracked"
  /\ flight = noFlight
  /\ InitLoop

SpecRds == InitRds /\ [][Next]_vars

startable_all(q) == {q[i].siteId : i \in 1..Len(q)}

\* The calls of writeWorksiteState begun before the loop waits: the for loops of
\* syncOnce and setSitesDefault await each call, so only the oldest value's.
startable(q) == {Head(q).siteId}

\* syncOnce reaches an await on the RDS client: api.login() when it was called
\* without a session (the call of syncOnce itself is counted here), or the
\* next writeWorksiteState.
AwaitRds ==
  /\ flight.tracked
  /\ \/ /\ pc = "start"
        /\ sessionId = null
        /\ "login" \notin flight.rds
        /\ flight' = [flight EXCEPT !.rds = @ \cup {"login"}, !.syncs = @ + 1]
     \/ /\ pc = "write"
        /\ wq # <<>>
        /\ Head(wq).siteId \notin flight.rds
        /\ flight' = [flight EXCEPT !.rds = @ \cup startable(wq)]
  /\ UNCHANGED <<clock, sessionId, modbusStates, debounceStates, pc, tickStart,
                 gi, si, inputs, wq, ghostVars, wildGroup, proc, cfg,
                 tickLogin, apiLast, debLast>>

InitFlight ==
  /\ wildGroup \in GroupIdx
  /\ sessionId = null
  /\ debounceStates = EmptyMap
  /\ rdsHolds = [s \in SiteIds |-> "untracked"]
  /\ tickLogin = "untracked"
  /\ flight = [tracked |-> TRUE, rds |-> {}, syncs |-> 0]
  /\ InitLoop

NextFlight == Next \/ AwaitRds

\* The sync loop, followed together with the RDS calls it awaits and the calls
\* of syncOnce that have not settled.
SpecFlight == InitFlight /\ [][NextFlight]_vars

\* The sync loop of src/modbus-sync-worksites.js: the same loop around the
\* exception-based readInputsForGroup.
InitOld ==
  /\ wildGroup \in GroupIdx
  /\ sessionId = null
  /\ debounceStates = EmptyMap
  /\ rdsHolds = [s \in SiteIds |-> "untracked"]
  /\ tickLogin = "untracked"
  /\ flight = noFlight
  /\ clock = StartTime
  /\ modbusStates = EmptyMap
  /\ pc = "start"
  /\ tickStart = StartTime
  /\ gi = 0
  /\ si = 0
  /\ inputs = <<>>
  /\ wq = <<>>
  /\ tickGrp = noTickGrp
  /\ tickWrites = <<>>
  /\ published = [s \in SiteIds |-> "none"]
  /\ runStart = [s \in SiteIds |-> null]
  /\ lastFail = [k \in GroupIdx |-> noFail]
  /\ apiLast = [kind |-> "none"]
  /\ debLast = [kind |-> "none"]
  /\ proc = procRunning
  /\ cfg = [kind |-> "old"]

SpecOld == InitOld /\ [][Next]_vars

\* The sync loop, followed together with the outcome of syncOnce's own login and
\* the logins of the writes.
InitLogin ==
  /\ wildGroup \in GroupIdx
  /\ sessionId = null
  /\ debounceStates = EmptyMap
  /\ rdsHolds = [s \in SiteIds |-> "untracked"]
  /\ tickLogin = "none"
  /\ flight = noFlight
  /\ InitLoop

SpecLogin == InitLogin /\ [][Next]_vars

\* ------------------------------------------- the debouncer called on its own

DebTimes == {StartTime + k * POLL_INTERVAL_MS : k \in 0..MaxDebTicks}

\* Every debounce state a site can be given, reachable by the loop or not.
DebounceRecords ==
  [lastOppositeStartTs : DebTimes \cup {null}, effectiveVal : BOOLEAN]

DebouncePriorStates ==
  {EmptyMap} \cup
  UNION {{[x \in {id} |-> st] : st \in DebounceRecords} : id \in SiteIds}

InitDebounce ==
  /\ wildGroup = 1
  /\ sessionId = null
  /\ debounceStates \in DebouncePriorStates
  /\ rdsHolds = [s \in SiteIds |-> "untracked"]
  /\ tickLogin = "untracked"
  /\ flight = noFlight
  /\ InitLoop

\* updateDebouncedState(s, rawVal, now) and the write syncOnce makes of its
\* result, from any prior state.
DebounceCall ==
  /\ debLast.kind = "none"
  /\ \E id \in SiteIds, rawVal \in BOOLEAN, now \in DebTimes :
       LET s == SiteOf(id)
           u == updateDebouncedState(debounceStates, s, rawVal, now)
       IN /\ debounceStates' = u.states
          /\ debLast' = [kind |-> "update", siteId |-> id, rawVal |-> rawVal,
                         now |-> now, had |-> id \in DOMAIN debounceStates,
                         prior |-> IF id \in DOMAIN debounceStates
                                   THEN debounceStates[id]
                                   ELSE freshDebounce(defaultToBool(s.default)),
                         ret |-> u.ret, req |-> writeRequest(s, u.ret)]
  /\ UNCHANGED <<clock, sessionId, modbusStates, pc, tickStart, gi, si, inputs, wq>>
  /\ UNCHANGED ghostVars
  /\ UNCHANGED <<wildGroup, proc, cfg, tickLogin, flight, apiLast>>

\* resetDebounceForSites([s]) followed by updateDebouncedState(s, rawVal, now),
\* from any prior state.
ResetThenUpdate ==
  /\ debLast.kind = "none"
  /\ \E id \in SiteIds, rawVal \in BOOLEAN, now \in DebTimes :
       LET s == SiteOf(id)
           cleared == resetDebounceForSites(debounceStates, <<s>>)
           u == updateDebouncedState(cleared, s, rawVal, now)
       IN /\ debounceStates' = u.states
          /\ debLast' = [kind |-> "resetUpdate", siteId |-> id, rawVal |-> rawVal,
                         now |-> now, had |-> id \in DOMAIN debounceStates,
                         prior |-> IF id \in DOMAIN debounceStates
                                   THEN debounceStates[id]
                                   ELSE freshDebounce(defaultToBool(s.default)),
                         ret |-> u.ret, req |-> writeRequest(s, u.ret)]
  /\ UNCHANGED <<clock, sessionId, modbusStates, pc, tickStart, gi, si, inputs, wq>>
  /\ UNCHANGED ghostVars
  /\ UNCHANGED <<wildGroup, proc, cfg, tickLogin, flight, apiLast>>

NextDebounce == DebounceCall \/ ResetThenUpdate

SpecDebounce == InitDebounce /\ [][NextDebounce]_vars

\* ------------------------------------------------- apiCall called on its own

InitApi ==
  /\ wildGroup = 1
  /\ sessionId \in Tokens \cup {null}
  /\ debounceStates = EmptyMap
  /\ rdsHolds = [s \in SiteIds |-> "untracked"]
  /\ tickLogin = "untracked"
  /\ flight = noFlight
  /\ InitLoop

\* A work-site call through the class's effective (second) apiCall, from any
\* session and against any answers of RDS.
ApiCallStep ==
  /\ apiLast.kind = "none"
  /\ \E id \in SiteIds, filledBool \in BOOLEAN, env \in ApiEnvs :
       LET req == writeRequest(SiteOf(id), filledBool)
           r == apiCall(sessionId, req, env)
       IN /\ sessionId' = r.sid
          /\ apiLast' = [kind |-> "call", def |-> "second", sid0 |-> sessionId,
                         req |-> req, env |-> env, res |-> r]
  /\ UNCHANGED <<clock, modbusStates, debounceStates, pc, tickStart, gi, si, inputs, wq>>
  /\ UNCHANGED ghostVars
  /\ UNCHANGED <<wildGroup, proc, cfg, tickLogin, flight, debLast>>

\* The same call through the class's first apiCall definition.
ApiCallFirstStep ==
  /\ apiLast.kind = "none"
  /\ \E id \in SiteIds, filledBool \in BOOLEAN, env \in ApiEnvs :
       LET req == writeRequest(SiteOf(id), filledBool)
           r == apiCallFirst(sessionId, req, env)
       IN /\ sessionId' = r.sid
          /\ apiLast' = [kind |-> "call", def |-> "first", sid0 |-> sessionId,
                         req |-> req, env |-> env, res |-> r]
  /\ UNCHANGED <<clock, modbusStates, debounceStates, pc, tickStart, gi, si, inputs, wq>>
  /\ UNCHANGED ghostVars
  /\ UNCHANGED <<wildGroup, proc, cfg, tickLogin, flight, debLast>>

\* APIClient.login() on its own, from any session and against any answer.
LoginStep ==
  /\ apiLast.kind = "none"
  /\ \E lr \in LoginResponses :
       LET r == login(sessionId, lr)
       IN /\ sessionId' = r.sid
          /\ apiLast' = [kind |-> "login", sid0 |-> sessionId, lr |-> lr, res |-> r]
  /\ UNCHANGED <<clock, modbusStates, debounceStates, pc, tickStart, gi, si, inputs, wq>>
  /\ UNCHANGED ghostVars
  /\ UNCHANGED <<wildGroup, proc, cfg, tickLogin, flight, debLast>>

NextApi == ApiCallStep \/ ApiCallFirstStep \/ LoginStep

SpecApi == InitApi /\ [][NextApi]_vars

\* ---------------------------------------------------------------- properties

defaultOf(siteId) == defaultToBool(SiteOf(siteId).default)

\* The endpoint and body that publish a value for a site.
endpointFor(siteId, val) ==
  [path |-> IF val THEN "/api/work-sites/worksiteFiled"
            ELSE "/api/work-sites/worksiteUnFiled",
   ids |-> <<siteId>>]

\* The calls of writeWorksiteState made for a site so far in this tick.
writesFor(siteId) == {i \in 1..Len(tickWrites) : tickWrites[i].siteId = siteId}

\* The for loop of syncOnce is past group k in this tick.
groupDone(k) == gi > k

\* syncOnce has walked every group of this tick.
tickDone == pc = "group" /\ gi > Len(GROUPS)

\* The run of ok, disagreeing samples of a site has lasted the debounce window
\* at the sample taken at time at.
WindowHeld(siteId, at) ==
  runStart[siteId] # null /\ at - runStart[siteId] >= FILL_DEBOUNCE_MS

\* C1: updateDebouncedState called with a raw bit equal to the site's default
\* bit, from whatever debounce state the site had (none, a run in progress, an
\* accepted opposite), returns the default, which is the value published, and
\* leaves the site with no lastOppositeStartTs.
C1_AgreeingSampleIsDefault ==
  (debLast.kind = "update" /\ debLast.rawVal = defaultOf(debLast.siteId)) =>
    /\ debLast.ret = defaultOf(debLast.siteId)
    /\ debLast.req = endpointFor(debLast.siteId, defaultOf(debLast.siteId))
    /\ debLast.siteId \in DOMAIN debounceStates
    /\ debounceStates[debLast.siteId].lastOppositeStartTs = null
    /\ debounceStates[debLast.siteId].effectiveVal = defaultOf(debLast.siteId)

\* An agreeing sample arrives at a site whose opposite state had been accepted.
C1_Witness ==
  /\ debLast.kind = "update"
  /\ debLast.rawVal = defaultOf(debLast.siteId)
  /\ debLast.had
  /\ debLast.prior.effectiveVal # defaultOf(debLast.siteId)
  /\ debLast.prior.lastOppositeStartTs # null

\* C2: a value opposite to the site's default is handed to RDS only at a sample
\* that ends an uninterrupted run of ok, disagreeing samples (no agreeing
\* sample, Modbus error, backoff, missing value or reset in between) that
\* began at least FILL_DEBOUNCE_MS earlier.
C2_OppositeOnlyAfterWindow ==
  /\ \A i \in 1..Len(wq) :
       wq[i].val # defaultOf(wq[i].siteId) => WindowHeld(wq[i].siteId, wq[i].at)
  /\ \A i \in 1..Len(tickWrites) :
       tickWrites[i].val # defaultOf(tickWrites[i].siteId)
         => WindowHeld(tickWrites[i].siteId, tickWrites[i].at)

\* The opposite of the default has been written for a site.
C2_Witness ==
  \E i \in 1..Len(tickWrites) : tickWrites[i].val # defaultOf(tickWrites[i].siteId)

\* C3: in a tick whose read of a group ends in error, no site of the group
\* keeps a debounce state, every write of the tick for such a site carries the
\* site's default on the matching endpoint, and each site gets exactly one.
C3_ErrorResetsAndWritesDefault ==
  \A k \in GroupIdx :
    tickGrp[k].status = "error" =>
      \A id \in GroupSiteIds(k) :
        /\ id \notin DOMAIN debounceStates
        /\ \A i \in writesFor(id) :
             /\ tickWrites[i].val = defaultOf(id)
             /\ tickWrites[i].req = endpointFor(id, defaultOf(id))
        /\ \A i \in 1..Len(wq) : wq[i].siteId = id => wq[i].val = defaultOf(id)
        /\ groupDone(k) => Cardinality(writesFor(id)) = 1

\* A read error in a group one of whose sites had been published as the
\* opposite of its default: the site is written back to the default.
C3_Witness ==
  \E k \in GroupIdx :
    /\ tickGrp[k].status = "error"
    /\ groupDone(k)
    /\ \E i \in 1..Len(tickWrites) :
         /\ tickWrites[i].siteId \in GroupSiteIds(k)
         /\ tickWrites[i].prev = boolName(~defaultOf(tickWrites[i].siteId))

\* The step in which a read comes back as backoff: no Modbus operation, and
\* nothing of the program's state but the loop index moves.
C4_BackoffStep ==
  \A k \in GroupIdx :
    (tickGrp[k].status # "backoff" /\ tickGrp'[k].status = "backoff") =>
      /\ tickGrp'[k].io = <<>>
      /\ modbusStates' = modbusStates
      /\ debounceStates' = debounceStates
      /\ tickWrites' = tickWrites
      /\ wq' = wq
      /\ sessionId' = sessionId
      /\ clock' = clock

\* The rest of a tick in which the group was in backoff.
C4_BackoffFrame ==
  \A k \in GroupIdx :
    (tickGrp[k].status = "backoff" /\ tickGrp'[k].status = "backoff") =>
      /\ (GROUPS[k].key \in DOMAIN modbusStates') = (GROUPS[k].key \in DOMAIN modbusStates)
      /\ GROUPS[k].key \in DOMAIN modbusStates
           => modbusStates'[GROUPS[k].key] = modbusStates[GROUPS[k].key]
      /\ \A id \in GroupSiteIds(k) :
           /\ (id \in DOMAIN debounceStates') = (id \in DOMAIN debounceStates)
           /\ id \in DOMAIN debounceStates => debounceStates'[id] = debounceStates[id]

C4_NoWriteInBackoff ==
  \A k \in GroupIdx :
    tickGrp[k].status = "backoff" =>
      \A id \in GroupSiteIds(k) :
        /\ writesFor(id) = {}
        /\ \A i \in 1..Len(wq) : wq[i].siteId # id

\* C4: a tick in which a group's read falls in the backoff window changes
\* nothing for the group: the read issues no Modbus operation, the group's
\* { client, lastAttemptMs } and its sites' debounce states stay as they were
\* through the whole tick, and no write is made for its sites.
C4_BackoffTickChangesNothing ==
  /\ [][C4_BackoffStep /\ C4_BackoffFrame]_vars
  /\ []C4_NoWriteInBackoff

\* A whole tick has passed with a group in backoff.
C4_Witness ==
  \E k \in GroupIdx : tickGrp[k].status = "backoff" /\ tickDone

connectOps(k) ==
  {j \in 1..Len(tickGrp[k].io) : tickGrp[k].io[j].op = "connect"}

\* C5 as stated: no TCP connect is issued for a group less than
\* RECONNECT_BACKOFF_MS after the moment its previous connect or read attempt
\* failed, however long the failed attempt took.
C5_NoConnectSoonAfterFailure ==
  \A k \in GroupIdx : \A j \in connectOps(k) :
    tickGrp[k].prevFail.doneAt # null =>
      tickGrp[k].io[j].at - tickGrp[k].prevFail.doneAt >= RECONNECT_BACKOFF_MS

\* C5, amended: no TCP connect is issued for a group less than
\* RECONNECT_BACKOFF_MS after the time its previous failed attempt counts from:
\* the start of a failed connect, the end of a failed read.
C5_NoConnectSoonAfterAttempt ==
  \A k \in GroupIdx : \A j \in connectOps(k) :
    tickGrp[k].prevFail.armedAt # null =>
      tickGrp[k].io[j].at - tickGrp[k].prevFail.armedAt >= RECONNECT_BACKOFF_MS

\* A group reconnects after a connect that took time to fail.
C5_Witness ==
  \E k \in GroupIdx :
    /\ connectOps(k) # {}
    /\ tickGrp[k].prevFail.armedAt # null
    /\ tickGrp[k].prevFail.doneAt > tickGrp[k].prevFail.armedAt

\* The exchanges of the last apiCall made on its own.
callTrace == apiLast.res.trace

fetchesOf(tr) == {j \in 1..Len(tr) : tr[j].op = "fetch"}
loginsOf(tr) == {j \in 1..Len(tr) : tr[j].op = "login"}

\* The position of the request apiCall sends first (0 when it sent none).
firstFetch(tr) ==
  IF fetchesOf(tr) = {} THEN 0
  ELSE CHOOSE j \in fetchesOf(tr) : \A i \in fetchesOf(tr) : j <= i

\* The session the client holds when the first request is sent.
sessionAtFirstFetch == callTrace[firstFetch(callTrace)].cookie

\* The last apiCall is one of the effective definition whose first request was
\* answered with 401 or 403.
expiredCall ==
  /\ apiLast.kind = "call"
  /\ apiLast.def = "second"
  /\ firstFetch(callTrace) > 0
  /\ callTrace[firstFetch(callTrace)].status \in {401, 403}

C7_OtherFailuresAreNotRetried ==
  apiLast.kind = "call" =>
    \A j \in fetchesOf(callTrace) :
      (~responseOk(callTrace[j].status) /\ callTrace[j].status \notin {401, 403}) =>
        /\ j = Len(callTrace)
        /\ apiLast.res.threw
        /\ j = firstFetch(callTrace) =>
             /\ Cardinality(fetchesOf(callTrace)) = 1
             /\ sessionId = sessionAtFirstFetch

\* The effective apiCall, holding a session, gets a 400 for its request.
C7_Witness ==
  /\ apiLast.kind = "call"
  /\ apiLast.def = "second"
  /\ apiLast.sid0 # null
  /\ callTrace # <<>>
  /\ callTrace[1].op = "fetch"
  /\ callTrace[1].status = 400

\* C8: in every tick, once the loop is past a group whose read was ok or
\* error, writeWorksiteState has been called exactly once for each site of the
\* group, whatever was published for the site before, and every call goes to
\* the endpoint of its value (worksiteFiled for FILLED, worksiteUnFiled for
\* EMPTY) with the site's id as the only work-site id.
C8_OneMatchingWritePerSite ==
  /\ \A i \in 1..Len(tickWrites) :
       tickWrites[i].req = endpointFor(tickWrites[i].siteId, tickWrites[i].val)
  /\ \A id \in SiteIds : Cardinality(writesFor(id)) <= 1
  /\ \A k \in GroupIdx :
       (groupDone(k) /\ tickGrp[k].status \in {"ok", "error"}) =>
         \A id \in GroupSiteIds(k) : Cardinality(writesFor(id)) = 1

\* A tick that wrote every site, one of them with the value already published
\* for it and one with a value that differs from the published one.
C8_Witness ==
  /\ tickDone
  /\ \A id \in SiteIds : writesFor(id) # {}
  /\ \E i \in 1..Len(tickWrites) : tickWrites[i].prev = boolName(tickWrites[i].val)
  /\ \E i \in 1..Len(tickWrites) : tickWrites[i].prev = boolName(~tickWrites[i].val)

\* The step of a write that fails: the debounce and Modbus Maps stay as they
\* are and the loop goes on with what it had left to do.
C9_FailedWriteStep ==
  (Len(tickWrites') = Len(tickWrites) + 1 /\ tickWrites'[Len(tickWrites')].failed) =>
    /\ debounceStates' = debounceStates
    /\ modbusStates' = modbusStates
    /\ wq' = Tail(wq)
    /\ pc' \in {"write", "site", "group"}

\* No write ends the tick early: syncOnce is never left by an exception of a
\* write, and at the end of a tick every group has been read and every site of
\* a group read as ok or error has had its write.
C9_TickRunsToTheEnd ==
  /\ pc # "sleep"
  /\ tickDone =>
       \A k \in GroupIdx :
         /\ tickGrp[k].status # "none"
         /\ tickGrp[k].status \in {"ok", "error"} =>
              \A id \in GroupSiteIds(k) : writesFor(id) # {}

\* C9: a write to RDS that fails does not abort the tick: the sites and groups
\* left are processed as usual, and the failure changes neither a debounce
\* state nor a group's Modbus state.
C9_FailedWriteDoesNotAbort ==
  /\ [][C9_FailedWriteStep]_vars
  /\ []C9_TickRunsToTheEnd

\* The first write of a tick failed and the tick still wrote the other sites.
C9_Witness ==
  /\ tickDone
  /\ Len(tickWrites) = Cardinality(SiteIds)
  /\ tickWrites[1].failed
  /\ \E i \in 2..Len(tickWrites) : ~tickWrites[i].failed

\* C10: after an ok read, a site whose element is missing from the inputs has
\* no debounce state and is written its default; a site whose element is
\* there is debounced as usual: it keeps a state, the state's run start is
\* that of its run of disagreeing samples, and the value written is the
\* state's effective value, the opposite of the default exactly when the run
\* has lasted FILL_DEBOUNCE_MS.
C10_MissingElementResetsOnlyThatSite ==
  \A i \in 1..Len(tickWrites) :
    LET w == tickWrites[i]
    IN /\ w.raw = "missing" =>
            /\ tickGrp[GroupOfSite(w.siteId)].status = "ok"
            /\ w.val = defaultOf(w.siteId)
            /\ w.req = endpointFor(w.siteId, defaultOf(w.siteId))
            /\ w.siteId \notin DOMAIN debounceStates
       /\ w.raw \in {"true", "false"} =>
            /\ tickGrp[GroupOfSite(w.siteId)].status = "ok"
            /\ w.siteId \in DOMAIN debounceStates
            /\ debounceStates[w.siteId].effectiveVal = w.val
            /\ debounceStates[w.siteId].lastOppositeStartTs = runStart[w.siteId]
            /\ (w.val # defaultOf(w.siteId)) = WindowHeld(w.siteId, w.at)

\* A short response: the first site of a group has its element and is
\* published as the opposite of its default, the second has none and had been
\* published as the opposite of its default before.
C10_Witness ==
  \E i, j \in 1..Len(tickWrites) :
    /\ GroupOfSite(tickWrites[i].siteId) = GroupOfSite(tickWrites[j].siteId)
    /\ tickWrites[i].raw = "missing"
    /\ tickWrites[i].prev = boolName(~defaultOf(tickWrites[i].siteId))
    /\ tickWrites[j].raw \in {"true", "false"}
    /\ tickWrites[j].val # defaultOf(tickWrites[j].siteId)

\* The step that takes a sample of a site holding no debounce state (the
\* process has just started, or a Modbus error or a missing value deleted the
\* state): the value it hands to the write is the site's default.
C11_FirstSampleStep ==
  (pc = "site" /\ pc' = "write") =>
    \A i \in 1..Len(wq') :
      wq'[i].siteId \notin DOMAIN debounceStates => wq'[i].val = defaultOf(wq'[i].siteId)

\* The first value written for a site since the process started is its default.
C11_FirstWriteSinceStart ==
  /\ \A i \in 1..Len(tickWrites) :
       tickWrites[i].prev = "none" => tickWrites[i].val = defaultOf(tickWrites[i].siteId)
  /\ \A i \in 1..Len(wq) :
       published[wq[i].siteId] = "none" => wq[i].val = defaultOf(wq[i].siteId)

\* C11: the first state published for a site after process start, and the
\* first one published while the site holds no debounce state (after a Modbus
\* error or a missing value deleted it), is the site's default, whatever the
\* raw bit of that sample is.
C11_FirstPublishIsDefault ==
  /\ [][C11_FirstSampleStep]_vars
  /\ []C11_FirstWriteSinceStart

\* The read before this one failed, which deleted the debounce states of the
\* group's sites; the sample now written is the first since, and it disagrees
\* with the site's default.
C11_Witness ==
  \E i \in 1..Len(tickWrites) :
    LET w == tickWrites[i]
        g == tickGrp[GroupOfSite(w.siteId)]
    IN /\ g.status = "ok"
       /\ g.prevFail.doneAt # null
       /\ w.raw = boolName(~defaultOf(w.siteId))
       /\ w.val = defaultOf(w.siteId)
       /\ w.prev # "none"

\* ------------------------------- a run of disagreeing samples on the debouncer

\* The time between two samples of a site: mainLoop's period, or more when
\* syncOnce took longer than the period.
SampleGaps == {POLL_INTERVAL_MS, POLL_INTERVAL_MS + (POLL_INTERVAL_MS \div 2)}

\* A site with no run open: no entry, or the entry an agreeing sample leaves.
InitRun ==
  /\ wildGroup = 1
  /\ sessionId = null
  /\ debounceStates \in
       {EmptyMap} \cup
       {[x \in {id} |-> freshDebounce(defaultOf(id))] : id \in SiteIds}
  /\ rdsHolds = [s \in SiteIds |-> "untracked"]
  /\ tickLogin = "untracked"
  /\ flight = noFlight
  /\ InitLoop

\* The first disagreeing sample of a site, at any time.
RunStart ==
  /\ debLast.kind = "none"
  /\ \E id \in SiteIds, now \in DebTimes :
       LET u == updateDebouncedState(debounceStates, SiteOf(id), ~defaultOf(id), now)
       IN /\ clock' = now
          /\ debounceStates' = u.states
          /\ debLast' = [kind |-> "run", siteId |-> id, n |-> 1, t0 |-> now,
                         now |-> now, ret |-> u.ret, regular |-> TRUE]
  /\ UNCHANGED <<sessionId, modbusStates, pc, tickStart, gi, si, inputs, wq>>
  /\ UNCHANGED ghostVars
  /\ UNCHANGED <<wildGroup, proc, cfg, tickLogin, flight, apiLast>>

\* The next disagreeing sample of the run.
RunSample ==
  /\ debLast.kind = "run"
  /\ debLast.n < MaxRunSamples
  /\ \E gap \in SampleGaps :
       LET id == debLast.siteId
           now == clock + gap
           u == updateDebouncedState(debounceStates, SiteOf(id), ~defaultOf(id), now)
       IN /\ clock' = now
          /\ debounceStates' = u.states
          /\ debLast' = [debLast EXCEPT !.n = @ + 1, !.now = now, !.ret = u.ret,
                                        !.regular = @ /\ gap = POLL_INTERVAL_MS]
  /\ UNCHANGED <<sessionId, modbusStates, pc, tickStart, gi, si, inputs, wq>>
  /\ UNCHANGED ghostVars
  /\ UNCHANGED <<wildGroup, proc, cfg, tickLogin, flight, apiLast>>

NextRun == RunStart \/ RunSample

SpecRun == InitRun /\ [][NextRun]_vars

\* C12: in a run of disagreeing samples that started at t0, the sample at time
\* t makes the effective value the opposite of the default when t - t0 is
\* FILL_DEBOUNCE_MS or more, and leaves it the default when t - t0 is
\* smaller; with a sample every POLL_INTERVAL_MS (500 ms against a debounce of
\* 2000 ms) the opposite is returned from the fifth sample on and not before.
C12_AcceptedAtExactlyTheWindow ==
  debLast.kind = "run" =>
    LET id == debLast.siteId
        dt == debLast.now - debLast.t0
    IN /\ debounceStates[id].lastOppositeStartTs = debLast.t0
       /\ debounceStates[id].effectiveVal = debLast.ret
       /\ dt >= FILL_DEBOUNCE_MS => debLast.ret = ~defaultOf(id)
       /\ dt < FILL_DEBOUNCE_MS => debLast.ret = defaultOf(id)
       /\ debLast.regular => ((debLast.ret = ~defaultOf(id)) <=> debLast.n >= 5)

\* The fifth of five samples 500 ms apart, exactly FILL_DEBOUNCE_MS into the run.
C12_Witness ==
  /\ debLast.kind = "run"
  /\ debLast.regular
  /\ debLast.n = 5
  /\ debLast.now - debLast.t0 = FILL_DEBOUNCE_MS
  /\ debLast.ret = ~defaultOf(debLast.siteId)

\* The { client, lastAttemptMs } a call of readInputsForGroup finds for group k.
stateFound(k) ==
  IF GROUPS[k].key \in DOMAIN modbusStates THEN modbusStates[GROUPS[k].key]
  ELSE [client |-> null, lastAttemptMs |-> 0]

\* A call of readInputsForGroup for group k is made in this step.
readStep(k) == tickGrp[k].status = "none" /\ tickGrp'[k].status # "none"

connectsIn(io) == {j \in 1..Len(io) : io[j].op = "connect"}
readsIn(io) == {j \in 1..Len(io) : io[j].op = "read"}
closesIn(io) == {j \in 1..Len(io) : io[j].op = "close"}

\* A call that finds no client connects exactly when no attempt was recorded
\* (lastAttemptMs = 0) or the last one is RECONNECT_BACKOFF_MS or more old,
\* and returns backoff otherwise; a call that finds a client does neither.
C13_ConnectStep ==
  \A k \in GroupIdx :
    readStep(k) =>
      LET st == stateFound(k)
          due == st.lastAttemptMs = 0 \/ clock - st.lastAttemptMs >= RECONNECT_BACKOFF_MS
          res == tickGrp'[k]
      IN /\ st.client = null =>
              /\ (connectsIn(res.io) # {}) = due
              /\ (res.status = "backoff") = ~due
              /\ due => res.io[1] = [op |-> "connect", at |-> clock, addr |-> 0, len |-> 0]
         /\ st.client # null => (connectsIn(res.io) = {} /\ res.status # "backoff")
         /\ GROUPS[k].key \notin DOMAIN modbusStates => res.status # "backoff"
         /\ (st.client = null /\ lastFail[k].armedAt # null) =>
              (res.status = "backoff") = (clock - lastFail[k].armedAt < RECONNECT_BACKOFF_MS)

\* C13: with the group's client absent, readInputsForGroup attempts a connect
\* if and only if no attempt was ever made for the group or now - lastAttemptMs
\* >= RECONNECT_BACKOFF_MS, and returns backoff otherwise: the first read of a
\* group never returns backoff, and after a connect that failed at time t the
\* reads before t + RECONNECT_BACKOFF_MS return backoff and the read at
\* t + RECONNECT_BACKOFF_MS connects again.
C13_ConnectIffDue == [][C13_ConnectStep]_vars

\* An attempt failed at once; the read made exactly RECONNECT_BACKOFF_MS after
\* it attempts a fresh connect.
C13_Witness ==
  \E k \in GroupIdx : \E j \in connectOps(k) :
    /\ tickGrp[k].prevFail.armedAt # null
    /\ tickGrp[k].prevFail.doneAt = tickGrp[k].prevFail.armedAt
    /\ tickGrp[k].io[j].at - tickGrp[k].prevFail.armedAt = RECONNECT_BACKOFF_MS

\* C14: after a call of readInputsForGroup whose read ended in error (the
\* read was rejected or timed out, or it resolved with something that holds
\* no array of inputs), the client has been closed, the group holds no client
\* and lastAttemptMs is the time the read ended at.
C14_FailedReadClosesClient ==
  \A k \in GroupIdx :
    (tickGrp[k].status = "error" /\ readsIn(tickGrp[k].io) # {}) =>
      /\ closesIn(tickGrp[k].io) # {}
      /\ modbusStates[GROUPS[k].key].client = null
      /\ modbusStates[GROUPS[k].key].lastAttemptMs = lastFail[k].doneAt

\* After a call whose connect failed: the connect is the only Modbus operation
\* of the call (no read was issued), the group holds no client and
\* lastAttemptMs is the time the connect was started at.
C15_AfterFailedConnect ==
  \A k \in GroupIdx :
    (tickGrp[k].status = "error" /\ tickGrp[k].message = "connect failed") =>
      /\ Len(tickGrp[k].io) = 1
      /\ tickGrp[k].io[1].op = "connect"
      /\ modbusStates[GROUPS[k].key].client = null
      /\ modbusStates[GROUPS[k].key].lastAttemptMs = tickGrp[k].io[1].at
      /\ lastFail[k].armedAt = tickGrp[k].io[1].at

\* A call made less than RECONNECT_BACKOFF_MS after the failed attempt that
\* left the group without a client returns backoff and issues nothing.
C15_NextCallStep ==
  \A k \in GroupIdx :
    (/\ readStep(k)
     /\ stateFound(k).client = null
     /\ lastFail[k].armedAt # null
     /\ clock - lastFail[k].armedAt < RECONNECT_BACKOFF_MS) =>
      /\ tickGrp'[k].status = "backoff"
      /\ tickGrp'[k].io = <<>>
      /\ modbusStates'[GROUPS[k].key].client = null

\* C15: when a connect attempt fails, the group's client stays absent and the
\* call returns status error without issuing a read; the calls made less than
\* RECONNECT_BACKOFF_MS after that attempt return backoff.
C15_FailedConnectArmsBackoff ==
  /\ [][C15_NextCallStep]_vars
  /\ []C15_AfterFailedConnect

\* The last call for the group before this one was a connect that took time to
\* fail; this one, still inside the window, returned backoff.
C15_Witness ==
  \E k \in GroupIdx :
    /\ tickGrp[k].status = "backoff"
    /\ tickGrp[k].prevFail.armedAt # null
    /\ tickGrp[k].prevFail.doneAt > tickGrp[k].prevFail.armedAt
    /\ clock - tickGrp[k].prevFail.armedAt = RECONNECT_BACKOFF_MS - POLL_INTERVAL_MS

\* The response the last apiCall made on its own ended with: that of the
\* resent request when there was one, else that of the request.
lastResponse ==
  IF Cardinality(fetchesOf(callTrace)) = 2 THEN apiLast.env.r2 ELSE apiLast.env.r1

\* C16: when the request apiCall ends with is answered with a success and an
\* empty body the call returns null and does not fail, and when the body is
\* not empty and is no JSON the call returns the body as text.
C16_EmptyBodyIsNull ==
  (/\ apiLast.kind = "call"
   /\ fetchesOf(callTrace) # {}
   /\ callTrace[Len(callTrace)].op = "fetch"
   /\ responseOk(lastResponse.status)) =>
     /\ lastResponse.body = "" =>
          (~apiLast.res.threw /\ apiLast.res.ret.kind = "null")
     /\ (lastResponse.body # "" /\ ~isJson(lastResponse.body)) =>
          (~apiLast.res.threw /\ apiLast.res.ret = [kind |-> "text", text |-> lastResponse.body])

\* C17: apiCall (the effective definition) sends no request without a session
\* token: every request carries a cookie; a call that starts without a token
\* logs in before anything else, and when that login fails (a failing status,
\* no JSESSIONID, or login throwing for any other reason) no request is sent
\* and the call fails; a call that starts with a token sends it first.
C17_NoRequestWithoutSession ==
  (apiLast.kind = "call" /\ apiLast.def = "second") =>
    LET tr == callTrace
        lr == apiLast.env.login1
    IN /\ \A j \in fetchesOf(tr) : tr[j].cookie # null
       /\ apiLast.sid0 = null =>
            /\ tr # <<>>
            /\ tr[1].op = "login"
            /\ (~responseOk(lr.status) \/ lr.cookie = null \/ login(null, lr).threw) =>
                 /\ fetchesOf(tr) = {}
                 /\ apiLast.res.threw
            /\ fetchesOf(tr) # {} => tr[firstFetch(tr)].cookie = lr.cookie
       /\ apiLast.sid0 # null =>
            /\ tr # <<>>
            /\ tr[1].op = "fetch"
            /\ tr[1].cookie = apiLast.sid0

\* A call without a token whose login is refused: nothing but the login is sent.
C17_Witness ==
  /\ apiLast.kind = "call"
  /\ apiLast.def = "second"
  /\ apiLast.sid0 = null
  /\ ~responseOk(apiLast.env.login1.status)
  /\ Len(callTrace) = 1
  /\ apiLast.res.threw

\* C18: when the request is answered with 401 or 403 the stored token is
\* cleared before the new login: after a call whose re-login failed the client
\* holds no token (not the rejected one), and after a re-login that succeeded
\* the resent request carries the newly issued token.
C18_TokenClearedBeforeRelogin ==
  expiredCall =>
    LET tr == callTrace
        i == firstFetch(tr)
        lr == apiLast.env.login2
    IN IF ~responseOk(lr.status) \/ lr.cookie = null \/ login(tr[i].cookie, lr).threw
       THEN sessionId = null
       ELSE /\ Len(tr) = i + 2
            /\ tr[i + 2].op = "fetch"
            /\ tr[i + 2].cookie = lr.cookie
            /\ sessionId = lr.cookie

\* C19: the outcome of login depends on the status and the cookie only: a 2xx
\* answer with a JSESSIONID stores the token and succeeds whatever its body; a
\* 2xx answer without the cookie fails and leaves no token; any other status
\* fails.
C19_LoginIgnoresBody ==
  apiLast.kind = "login" =>
    LET lr == apiLast.lr
    IN /\ (responseOk(lr.status) /\ lr.cookie # null) =>
            (~apiLast.res.threw /\ sessionId = lr.cookie)
       /\ (responseOk(lr.status) /\ lr.cookie = null) =>
            (apiLast.res.threw /\ sessionId = null)
       /\ ~responseOk(lr.status) => apiLast.res.threw

\* C20: for every site and every prior debounce state, resetDebounceForSites
\* on the site followed by updateDebouncedState with the site's default bit
\* returns the default and leaves the site with no lastOppositeStartTs.
C20_ResetThenDefaultUpdate ==
  (debLast.kind = "resetUpdate" /\ debLast.rawVal = defaultOf(debLast.siteId)) =>
    /\ debLast.ret = defaultOf(debLast.siteId)
    /\ debLast.siteId \in DOMAIN debounceStates
    /\ debounceStates[debLast.siteId] =
         [lastOppositeStartTs |-> null, effectiveVal |-> defaultOf(debLast.siteId)]

\* The pair is applied to a site whose opposite state had been accepted.
C20_Witness ==
  /\ debLast.kind = "resetUpdate"
  /\ debLast.rawVal = defaultOf(debLast.siteId)
  /\ debLast.had
  /\ debLast.prior.effectiveVal # defaultOf(debLast.siteId)
  /\ debLast.prior.lastOppositeStartTs # null

\* C21: whenever a tick skips a group because its read returned backoff, RDS
\* holds the default of every site of the group: the last write RDS accepted
\* for the site is that of its default.
C21_BackoffMeansRdsHoldsDefault ==
  \A k \in GroupIdx :
    tickGrp[k].status = "backoff" =>
      \A id \in GroupSiteIds(k) : rdsHolds[id] = boolName(defaultOf(id))

\* What does hold in a backoff tick: the last value handed to
\* writeWorksiteState for every site of the group is the site's default.
C21_BackoffMeansDefaultWasAttempted ==
  \A k \in GroupIdx :
    tickGrp[k].status = "backoff" =>
      \A id \in GroupSiteIds(k) : published[id] = boolName(defaultOf(id))

\* ---------------------------------------------------------------------------
\* Startup: config validation and the process-wide failure handlers
\* ---------------------------------------------------------------------------

\* The longest site list handed to the startup code.
MaxCfgSites == 2

\* JavaScript values a site's siteId may hold: strings (the empty one too) and
\* a value of another type.
SiteIdVals ==
  { [t |-> "string", v |-> ""], [t |-> "string", v |-> "A"],
    [t |-> "string", v |-> "B"], [t |-> "number", v |-> "7"] }

\* JavaScript values a site's offset may hold: integers and a fraction.
OffsetVals ==
  { [t |-> "number", isInt |-> TRUE, n |-> 0 - 1],
    [t |-> "number", isInt |-> TRUE, n |-> 0],
    [t |-> "number", isInt |-> TRUE, n |-> 9],
    [t |-> "number", isInt |-> FALSE, n |-> 1] }

\* Values a site's default may hold: the two states and another string.
DefaultVals == {EMPTY, FILLED, "empty"}

CfgSites == [siteId : SiteIdVals, offset : OffsetVals, default : DefaultVals]

CfgLists(n) == UNION {[1..k -> CfgSites] : k \in 0..n}

\* !s.siteId || typeof s.siteId !== "string"
badSiteId(s) ==
  \/ s.siteId.t = "undefined"
  \/ (s.siteId.t = "string" /\ s.siteId.v = "")
  \/ s.siteId.t # "string"

\* !Number.isInteger(s.offset) || s.offset < 0
badOffset(s) ==
  \/ ~(s.offset.t = "number" /\ s.offset.isInt)
  \/ s.offset.n < 0

\* ![EMPTY, FILLED].includes(s.default)
badDefault(s) == ~(s.default \in {EMPTY, FILLED})

accepted == [ok |-> TRUE, at |-> 0, rule |-> "none"]

rejected(i, rule) == [ok |-> FALSE, at |-> i, rule |-> rule]

\* One pass of validateConfig's loop over a site, with the ids seen so far.
validateSite(s, i, ids) ==
  IF badSiteId(s) THEN rejected(i, "siteId")
  ELSE IF s.siteId \in ids THEN rejected(i, "duplicate")
  ELSE IF badOffset(s) THEN rejected(i, "offset")
  ELSE IF badDefault(s) THEN rejected(i, "default")
  ELSE accepted

RECURSIVE validateFrom(_, _, _)
validateFrom(sites, i, ids) ==
  IF i > Len(sites) THEN accepted
  ELSE LET r == validateSite(sites[i], i, ids)
       IN IF r.ok THEN validateFrom(sites, i + 1, ids \cup {sites[i].siteId})
          ELSE r

validateConfig_offsetFirst(sites) ==
  LET RECURSIVE go(_, _)
      go(i, ids) ==
        IF i > Len(sites) THEN accepted
        ELSE LET s == sites[i]
                 r == IF badOffset(s) THEN rejected(i, "offset")
                      ELSE validateSite(s, i, ids)
             IN IF r.ok THEN go(i + 1, ids \cup {s.siteId}) ELSE r
  IN go(1, {})

validateConfig_lastSite(sites) ==
  LET bad == {i \in 1..Len(sites) :
                ~validateSite(sites[i], i,
                              {sites[j].siteId : j \in 1..(i - 1)}).ok}
  IN IF bad = {} THEN accepted
     ELSE LET i == CHOOSE x \in bad : \A y \in bad : y <= x
          IN validateSite(sites[i], i, {sites[j].siteId : j \in 1..(i - 1)})

\* validateConfig: accepted, or the throw's site and rule.
validateConfig(sites) == validateFrom(sites, 1, {})

\* The process after the module's top-level code ran on a site list.  A throw
\* of validateConfig() at top level reaches the registered uncaughtException
\* handler, which logs it and returns: the rest of the module, mainLoop()
\* included, is not evaluated, nothing is left pending, and the process ends
\* with the exit code of a drained event loop.
loadModule(sites) ==
  IF validateConfig(sites).ok THEN procRunning
  ELSE [phase |-> "exited", exitCode |-> 0, closed |-> {}]

\* The state while the module's top-level code runs: nothing of the loop exists.
InitLoading ==
  /\ wildGroup = 1
  /\ sessionId = null
  /\ debounceStates = EmptyMap
  /\ rdsHolds = [s \in SiteIds |-> "untracked"]
  /\ clock = StartTime
  /\ modbusStates = EmptyMap
  /\ tickStart = StartTime
  /\ gi = 0
  /\ si = 0
  /\ inputs = <<>>
  /\ wq = <<>>
  /\ tickGrp = noTickGrp
  /\ tickWrites = <<>>
  /\ published = [s \in SiteIds |-> "none"]
  /\ runStart = [s \in SiteIds |-> null]
  /\ lastFail = [k \in GroupIdx |-> noFail]
  /\ apiLast = [kind |-> "none"]
  /\ debLast = [kind |-> "none"]
  /\ proc = [phase |-> "loading", exitCode |-> null, closed |-> {}]
  /\ tickLogin = "untracked"
  /\ flight = noFlight

InitStartup ==
  /\ InitLoading
  /\ pc = "load"
  /\ cfg \in [kind : {"sites"}, sites : CfgLists(MaxCfgSites),
              result : {accepted}]

\* The module's top-level code: handlers registered, validateConfig() called,
\* and, when it returns, mainLoop() started.
LoadModule ==
  /\ pc = "load"
  /\ proc.phase = "loading"
  /\ cfg' = [cfg EXCEPT !.result = validateConfig(cfg.sites)]
  /\ proc' = loadModule(cfg.sites)
  /\ pc' = IF validateConfig(cfg.sites).ok THEN "start" ELSE "halt"
  /\ UNCHANGED <<clock, sessionId, modbusStates, debounceStates, tickStart,
                 gi, si, inputs, wq, ghostVars, wildGroup, tickLogin, flight,
                 apiLast, debLast>>

SpecStartup == InitStartup /\ [][LoadModule]_vars

\* The site that validateConfig's rules single out in a list: the first one, in
\* list order, that breaks a rule, given the sites before it.
breaks(sites, i, rule) ==
  CASE rule = "siteId" ->
         ~(sites[i].siteId.t = "string" /\ sites[i].siteId.v # "")
    [] rule = "duplicate" ->
         \E j \in 1..(i - 1) : sites[j].siteId = sites[i].siteId
    [] rule = "offset" ->
         ~(sites[i].offset.t = "number" /\ sites[i].offset.isInt
           /\ sites[i].offset.n >= 0)
    [] rule = "default" -> sites[i].default \notin {"EMPTY", "FILLED"}

RuleOrder == <<"siteId", "duplicate", "offset", "default">>

breaksAny(sites, i) == \E r \in 1..Len(RuleOrder) : breaks(sites, i, RuleOrder[r])

\* C22: a site list that breaks a validation rule makes the process exit with
\* a non-zero status without entering the sync loop, the registered
\* process-wide failure handlers notwithstanding.
C22_InvalidConfigExitsNonZero ==
  (pc # "load" /\ ~cfg.result.ok) =>
     /\ proc.phase = "exited"
     /\ proc.exitCode # 0

C22_InvalidConfigNeverSyncs ==
  (pc # "load" /\ ~cfg.result.ok) => proc.phase = "exited" /\ pc = "halt"

\* C26: validateConfig accepts exactly the lists where every siteId is a
\* non-empty string, none occurs twice, every offset is a non-negative integer
\* and every default is EMPTY or FILLED; otherwise it fails at the first site,
\* in list order, that breaks a rule, with that site's first broken rule in the
\* order siteId, uniqueness, offset, default.
C26_ValidateConfigFirstViolation ==
  pc # "load" =>
    LET sites == cfg.sites
        res == cfg.result
        bad == {i \in 1..Len(sites) : breaksAny(sites, i)}
    IN /\ res.ok <=> bad = {}
       /\ ~res.ok =>
            /\ res.at \in bad
            /\ \A i \in bad : res.at <= i
            /\ \E r \in 1..Len(RuleOrder) :
                 /\ res.rule = RuleOrder[r]
                 /\ breaks(sites, res.at, RuleOrder[r])
                 /\ \A q \in 1..(r - 1) : ~breaks(sites, res.at, RuleOrder[q])

\* A second site repeating the first one's id and breaking the offset rule too
\* is reported as a duplicate, at the second site.
C26_Witness ==
  /\ pc = "halt"
  /\ Len(cfg.sites) = 2
  /\ cfg.sites[1].siteId = cfg.sites[2].siteId
  /\ badOffset(cfg.sites[2])
  /\ badDefault(cfg.sites[2])
  /\ cfg.result = rejected(2, "duplicate")

\* ---------------------------------------------------------------------------
\* Grouping of a site list
\* ---------------------------------------------------------------------------

\* The longest site list handed to groupSitesByConnection.
MaxGroupSites == 3

\* Validated sites for the i-th place of a list: ids differ by place, the
\* connection and the offset vary.
GroupingSites(i) ==
  [siteId : {"S" \o ToString(i)}, ip : {"10.6.44.70", "10.6.44.71"},
   port : {502}, slaveId : {1, 255}, offset : {0, 9, 12}, default : {EMPTY}]

GroupingLists(n) ==
  UNION {{l \in [1..k -> UNION {GroupingSites(i) : i \in 1..k}] :
            \A i \in 1..k : l[i] \in GroupingSites(i)} : k \in 0..n}

InitGroup ==
  /\ InitLoading
  /\ pc = "config"
  /\ cfg \in [kind : {"grouping"}, sites : GroupingLists(MaxGroupSites),
              groups : {<<>>}]

\* const GROUPS = groupSitesByConnection(SITES), on the site list of cfg.
GroupSites ==
  /\ pc = "config"
  /\ cfg' = [cfg EXCEPT !.groups = groupSitesByConnection(cfg.sites)]
  /\ pc' = "grouped"
  /\ UNCHANGED <<clock, sessionId, modbusStates, debounceStates, tickStart,
                 gi, si, inputs, wq, ghostVars, wildGroup, proc, tickLogin, flight,
                 apiLast, debLast>>

SpecGroup == InitGroup /\ [][GroupSites]_vars

\* The place of a site in the list.
placeOf(sites, s) == CHOOSE i \in 1..Len(sites) : sites[i] = s

sameConnection(a, b) == a.ip = b.ip /\ a.port = b.port /\ a.slaveId = b.slaveId

memberOffsets(g) == {g.sites[j].offset : j \in 1..Len(g.sites)}

\* C27: groupSitesByConnection partitions the sites by connection: each site is
\* in exactly one group, the one of its ip, port and slaveId; groups are
\* non-empty with unique keys; groups and the sites inside them keep list
\* order; minOffset and length are the members' minimum offset and
\* maxOffset - minOffset + 1.
C27_GroupingPartitionsSites ==
  pc = "grouped" =>
    LET S == cfg.sites
        G == cfg.groups
    IN /\ \A i \in 1..Len(S) :
            /\ Cardinality({p \in {<<k, j>> : k \in 1..Len(G), j \in 1..Len(S)} :
                              /\ p[2] <= Len(G[p[1]].sites)
                              /\ G[p[1]].sites[p[2]] = S[i]}) = 1
            /\ \A k \in 1..Len(G) :
                 (\E j \in 1..Len(G[k].sites) : G[k].sites[j] = S[i])
                   <=> sameConnection(G[k], S[i])
       /\ \A k \in 1..Len(G) :
            /\ Len(G[k].sites) >= 1
            /\ \A j \in 1..Len(G[k].sites) : \E i \in 1..Len(S) : G[k].sites[j] = S[i]
            /\ \A l \in 1..Len(G) : G[l].key = G[k].key => l = k
            /\ G[k].key = G[k].ip \o ":" \o ToString(G[k].port) \o ":"
                            \o ToString(G[k].slaveId)
            /\ \A j \in 1..(Len(G[k].sites) - 1) :
                 placeOf(S, G[k].sites[j]) < placeOf(S, G[k].sites[j + 1])
            /\ k < Len(G) =>
                 placeOf(S, G[k].sites[1]) < placeOf(S, G[k + 1].sites[1])
            /\ G[k].minOffset \in memberOffsets(G[k])
            /\ \A o \in memberOffsets(G[k]) : G[k].minOffset <= o
            /\ G[k].minOffset + G[k].length - 1 \in memberOffsets(G[k])
            /\ \A o \in memberOffsets(G[k]) : o <= G[k].minOffset + G[k].length - 1

\* Three sites on two connections, the first group holding the first and the
\* third site, the third one at the lowest offset.
C27_Witness ==
  /\ pc = "grouped"
  /\ Len(cfg.sites) = 3
  /\ Len(cfg.groups) = 2
  /\ cfg.groups[1].sites = <<cfg.sites[1], cfg.sites[3]>>
  /\ cfg.sites[3].offset < cfg.sites[1].offset
  /\ cfg.groups[1].minOffset = cfg.sites[3].offset
  /\ cfg.groups[1].length = 10

\* The read request a tick issued to group k, when it issued one.
readOpOf(k) ==
  LET n == CHOOSE n \in 1..Len(tickGrp[k].io) : tickGrp[k].io[n].op = "read"
  IN tickGrp[k].io[n]

hasRead(k) == \E n \in 1..Len(tickGrp[k].io) : tickGrp[k].io[n].op = "read"

\* The site whose value the loop produced last and is about to write.
siteInHand == GROUPS[gi].sites[si]

sampledSite == pc = "write" /\ si >= 1 /\ wq # <<>> /\ tickGrp[gi].status = "ok"

\* C28: every read request starts at minOffset and asks for maxOffset -
\* minOffset + 1 elements (1 for a single-site group); the bit used for a site
\* with offset o is the response element o - minOffset, an index within
\* 0..quantity-1.
C28_ReadWindowAndIndex ==
  /\ \A k \in GroupIdx :
       hasRead(k) =>
         /\ readOpOf(k).addr \in memberOffsets(GROUPS[k])
         /\ \A o \in memberOffsets(GROUPS[k]) :
              /\ readOpOf(k).addr <= o
              /\ o - readOpOf(k).addr \in 0..(readOpOf(k).len - 1)
         /\ readOpOf(k).addr + readOpOf(k).len - 1 \in memberOffsets(GROUPS[k])
         /\ Len(GROUPS[k].sites) = 1 => readOpOf(k).len = 1
  /\ sampledSite =>
       /\ Head(wq).siteId = siteInHand.siteId
       /\ Head(wq).raw \in {"true", "false"} =>
            /\ siteInHand.offset - readOpOf(gi).addr + 1 \in 1..Len(inputs)
            /\ Head(wq).raw = boolName(inputs[siteInHand.offset - readOpOf(gi).addr + 1])

\* The second site of the two-site group takes the second element of a
\* response whose two elements differ.
C28_Witness ==
  /\ sampledSite
  /\ Len(GROUPS[gi].sites) = 2
  /\ si = 2
  /\ readOpOf(gi).len = 2
  /\ Len(inputs) = 2
  /\ inputs[1] # inputs[2]
  /\ Head(wq).raw = boolName(inputs[2])

\* C29 as stated: a response with fewer elements than requested makes the read
\* an error for the group, never an ok read.
C29_ShortResponseIsError ==
  \A k \in GroupIdx :
    (k = gi /\ pc \in {"site", "write"} /\ tickGrp[k].status = "ok")
      => Len(inputs) >= readOpOf(k).len

\* C29, as the code has it: a response with fewer elements than requested is an
\* ok read; the client stays open, the sites whose element the response holds
\* are sampled, and each site whose element is beyond its end is handled as a
\* missing value: its debounce state is dropped and its default is written.
C29_ShortResponseIsOkWithMissingSites ==
  (pc \in {"site", "write"} /\ tickGrp[gi].status = "ok") =>
    /\ closesIn(tickGrp[gi].io) = {}
    /\ modbusStates[GROUPS[gi].key].client # null
    /\ sampledSite =>
         /\ Head(wq).raw = "missing"
              <=> siteInHand.offset - GROUPS[gi].minOffset >= Len(inputs)
         /\ Head(wq).raw = "missing" =>
              /\ Head(wq).val = defaultToBool(siteInHand.default)
              /\ siteInHand.siteId \notin DOMAIN debounceStates
              /\ Len(wq) = 1

\* A two-element request answered with one element: the first site was sampled
\* and written, the second one gets its default.
C29_Witness ==
  /\ sampledSite
  /\ readOpOf(gi).len = 2
  /\ Len(inputs) = 1
  /\ si = 2
  /\ Head(wq).raw = "missing"
  /\ \E n \in 1..Len(tickWrites) :
       /\ tickWrites[n].siteId = GROUPS[gi].sites[1].siteId
       /\ tickWrites[n].raw = boolName(inputs[1])

\* C23 as stated: in a tick that starts without a session and whose login
\* fails, readInputsForGroup runs for every group and a write is attempted for
\* every site.
C23_FailedLoginTickWritesEverySite ==
  (tickLogin = "failed" /\ tickDone) =>
    \A k \in GroupIdx :
      /\ tickGrp[k].status # "none"
      /\ \A s \in GroupSiteIds(k) : writesFor(s) # {}

\* C23, as the code has it: a tick that starts without a session and whose
\* login fails goes on as any other tick.  No exception leaves syncOnce;
\* readInputsForGroup runs for every group; every group that is not skipped in
\* backoff has had a connect or a read issued and gets one write attempt per
\* site, while a group in backoff gets none; and a write logs in first exactly
\* when the client holds no session as it starts.
C23_FailedLoginTickProceeds ==
  tickLogin = "failed" =>
    /\ pc # "sleep"
    /\ \A n \in 1..Len(tickWrites) :
         tickWrites[n].loginFirst <=> ~tickWrites[n].hadSession
    /\ \A k \in GroupIdx :
         groupDone(k) =>
           /\ tickGrp[k].status \in {"ok", "error", "backoff"}
           /\ tickGrp[k].status = "backoff" =>
                /\ tickGrp[k].io = <<>>
                /\ \A s \in GroupSiteIds(k) : writesFor(s) = {}
           /\ tickGrp[k].status # "backoff" =>
                /\ tickGrp[k].io # <<>>
                /\ \A s \in GroupSiteIds(k) : Cardinality(writesFor(s)) = 1

\* A tick whose login failed writes all three sites: the first write's login
\* fails too, the second write's login succeeds, the third finds the session.
C23_Witness ==
  /\ tickLogin = "failed"
  /\ tickDone
  /\ Len(tickWrites) = 3
  /\ tickWrites[1].loginFirst /\ tickWrites[1].failed
  /\ tickWrites[2].loginFirst /\ ~tickWrites[2].failed
  /\ tickWrites[3].hadSession /\ ~tickWrites[3].loginFirst

\* ---------------------------------------------------------------------------
\* Termination signals
\* ---------------------------------------------------------------------------

RECURSIVE closeAllFrom_noCatch(_, _, _, _)
closeAllFrom_noCatch(ms, k, throwing, called) ==
  IF k > Len(GROUPS) THEN [called |-> called, escaped |-> FALSE]
  ELSE IF GROUPS[k].key \notin DOMAIN ms THEN closeAllFrom_noCatch(ms, k + 1, throwing, called)
  ELSE IF ms[GROUPS[k].key].client = null
  THEN closeAllFrom_noCatch(ms, k + 1, throwing, called)
  ELSE IF k \in throwing THEN [called |-> called \cup {k}, escaped |-> TRUE]
  ELSE closeAllFrom_noCatch(ms, k + 1, throwing, called \cup {k})

closeAllModbusClients_noCatch(ms, throwing) == closeAllFrom_noCatch(ms, 1, throwing, {})

\* The loop of closeAllModbusClients from the k-th entry of the Map on (entries
\* come in insertion order, which is the order of GROUPS): an entry without a
\* client is skipped, close() is called on the others, and a close() that
\* throws (the groups in throwing) is caught inside the iteration.
RECURSIVE closeAllFrom(_, _, _, _)
closeAllFrom(ms, k, throwing, called) ==
  IF k > Len(GROUPS) THEN [called |-> called, escaped |-> FALSE]
  ELSE IF GROUPS[k].key \notin DOMAIN ms THEN closeAllFrom(ms, k + 1, throwing, called)
  ELSE IF ms[GROUPS[k].key].client = null
  THEN closeAllFrom(ms, k + 1, throwing, called)
  ELSE closeAllFrom(ms, k + 1, throwing, called \cup {k})

\* closeAllModbusClients(): the groups close() was called for, and whether an
\* exception left the function.
closeAllModbusClients(ms, throwing) == closeAllFrom(ms, 1, throwing, {})

\* The Maps a signal can find while readInputsForGroup(GROUPS[gk]), called at
\* time now on the Map ms, waits for connectTCP or for readDiscreteInputs: the
\* entry exists, the attempt is stamped before the connect is awaited, and the
\* client is stored only once the connect succeeded.
mapsWhileReading(ms, gk, now) ==
  LET group == GROUPS[gk]
      state0 == IF group.key \in DOMAIN ms THEN ms[group.key] ELSE freshModbusState
  IN IF state0.client = null /\ inBackoff(state0, now) THEN {}
     ELSE IF state0.client = null
     THEN {MapSet(ms, group.key, [state0 EXCEPT !.lastAttemptMs = now]),
           MapSet(ms, group.key, [client |-> gk, lastAttemptMs |-> now])}
     ELSE {MapSet(ms, group.key, state0)}

\* The Maps a signal can find at the point the loop stands at: the Map between
\* two awaited calls, or one of the Maps inside the read that is due.
mapsAtSignal ==
  {modbusStates} \cup
    (IF pc = "group" /\ gi <= Len(GROUPS)
     THEN mapsWhileReading(modbusStates, gi, clock) ELSE {})

\* process.on("SIGINT" / "SIGTERM"): closeAllModbusClients(), then
\* process.exit(0) unless an exception left closeAllModbusClients (and went to
\* the uncaughtException handler, which lets the process live on).  After the
\* exit only the record of the exit is left: the Map as the handler found it,
\* the close() calls made and the exit code.
Signal ==
  /\ proc.phase = "running"
  /\ pc \in {"start", "group", "site", "write", "sleep"}
  /\ \E ms \in mapsAtSignal, throwing \in SUBSET GroupIdx :
       LET c == closeAllModbusClients(ms, throwing)
       IN /\ modbusStates' = ms
          /\ proc' = IF c.escaped
                     THEN [phase |-> "running", exitCode |-> null,
                           closed |-> c.called, threw |-> throwing]
                     ELSE [phase |-> "exited", exitCode |-> 0,
                           closed |-> c.called, threw |-> throwing]
  /\ pc' = "halt"
  /\ clock' = StartTime
  /\ tickStart' = StartTime
  /\ sessionId' = null
  /\ debounceStates' = EmptyMap
  /\ gi' = 0
  /\ si' = 0
  /\ inputs' = <<>>
  /\ wq' = <<>>
  /\ tickGrp' = noTickGrp
  /\ tickWrites' = <<>>
  /\ published' = [s \in SiteIds |-> "none"]
  /\ rdsHolds' = [s \in SiteIds |-> "untracked"]
  /\ runStart' = [s \in SiteIds |-> null]
  /\ lastFail' = [k \in GroupIdx |-> noFail]
  /\ tickLogin' = "untracked"
  /\ UNCHANGED <<wildGroup, cfg, flight, apiLast, debLast>>

NextSignal == Next \/ Signal

SpecSignal == Init /\ [][NextSignal]_vars

\* The groups whose client the Map holds.
storedOpen == {k \in GroupIdx : /\ GROUPS[k].key \in DOMAIN modbusStates
                               /\ modbusStates[GROUPS[k].key].client # null}

\* C24: a SIGINT or SIGTERM, whenever it arrives, makes the process call
\* close() on every client the Map holds, whether or not a close() throws, and
\* exit with status 0.
C24_SignalClosesStoredClientsAndExits ==
  pc = "halt" =>
    /\ proc.phase = "exited"
    /\ proc.exitCode = 0
    /\ proc.closed = storedOpen

\* Both clients are open when the signal arrives, the first one's close()
\* throws, and the second one is closed all the same.
C24_Witness ==
  /\ pc = "halt"
  /\ proc.phase = "exited"
  /\ storedOpen = GroupIdx
  /\ proc.threw = {1}
  /\ proc.closed = GroupIdx

\* ---------------------------------------------------------------------------
\* The error-confining boundary of mainLoop
\* ---------------------------------------------------------------------------

\* The number of ticks the guarded loop is followed for.
MaxGuardedTicks == 1

\* An exception that leaves syncOnce although no I/O outcome produces one (an
\* error raised by a statement of syncOnce itself): the rest of the tick is
\* abandoned and control is in the catch of mainLoop.
SyncThrow ==
  /\ pc \in {"group", "site", "write"}
  /\ ~tickOver(pc, gi)
  /\ pc' = "sleep"
  /\ UNCHANGED <<clock, sessionId, modbusStates, debounceStates, tickStart,
                 gi, si, inputs, wq, ghostVars, wildGroup, proc, cfg,
                 tickLogin, flight, apiLast, debLast>>

NextGuarded == Next \/ SyncThrow

\* mainLoop entered at a time of day from which MaxGuardedTicks ticks are
\* followed.
InitGuarded ==
  /\ wildGroup \in GroupIdx
  /\ sessionId = null
  /\ debounceStates = EmptyMap
  /\ rdsHolds = [s \in SiteIds |-> "untracked"]
  /\ tickLogin = "untracked"
  /\ flight = noFlight
  /\ clock = MaxTime - MaxGuardedTicks * POLL_INTERVAL_MS
  /\ modbusStates = EmptyMap
  /\ pc = "start"
  /\ tickStart = clock
  /\ gi = 0
  /\ si = 0
  /\ inputs = <<>>
  /\ wq = <<>>
  /\ tickGrp = noTickGrp
  /\ tickWrites = <<>>
  /\ published = [s \in SiteIds |-> "none"]
  /\ runStart = [s \in SiteIds |-> null]
  /\ lastFail = [k \in GroupIdx |-> noFail]
  /\ apiLast = [kind |-> "none"]
  /\ debLast = [kind |-> "none"]
  /\ proc = procRunning
  /\ cfg = [kind |-> "none"]

SpecGuarded == InitGuarded /\ [][NextGuarded]_vars

\* mainLoop as scheduled by the event loop: every awaited call settles (with a
\* result or a failure; a call that never settles is no outcome) and is then
\* resumed, so a step that stays possible is eventually taken.
SpecGuardedFair == SpecGuarded /\ WF_vars(NextGuarded)

inTick == pc \in {"group", "site", "write", "sleep"}

\* How far the current tick has come.
tickPos ==
  CASE pc = "start" -> 0
    [] pc = "group" -> 100 * gi
    [] pc = "site" -> 100 * gi + 10 * si
    [] pc = "write" -> 100 * gi + 10 * si + 5 - Len(wq)
    [] OTHER -> 100 * (Len(GROUPS) + 2)

\* C25: no outcome of Modbus or RDS I/O stops the daemon.  A step that does
\* I/O never lands in the catch of mainLoop (its failures are recorded
\* outcomes), an exception that leaves syncOnce is caught there, the process
\* keeps running, every step of a tick brings it nearer its end, and the loop
\* can always go on, so that the next tick starts.
C25_StepsAdvanceTheTick ==
  [][/\ (pc' = "sleep" /\ pc # "sleep") =>
          UNCHANGED <<clock, sessionId, modbusStates, tickGrp, tickWrites>>
     /\ pc' # "start" => tickPos' > tickPos
     /\ pc' = "start" => (tickOver(pc, gi) /\ clock' - tickStart >= POLL_INTERVAL_MS)]_vars

C25_LoopCanGoOn ==
  /\ proc.phase = "running"
  /\ pc \in {"start", "group", "site", "write", "sleep"}
  /\ clock + POLL_INTERVAL_MS <= MaxTime => ENABLED NextGuarded
  /\ pc = "sleep" => ENABLED SyncEnd \/ clock + POLL_INTERVAL_MS > MaxTime

C25_NextTickAlwaysRuns ==
  /\ C25_StepsAdvanceTheTick
  /\ []C25_LoopCanGoOn
  /\ [](inTick /\ tickStart + POLL_INTERVAL_MS <= MaxTime => <>(pc = "start"))

\* A tick in which the PLC of a group failed, a write failed, and which is over
\* all the same: the wait of mainLoop is what comes next.
C25_Witness ==
  /\ tickOver(pc, gi)
  /\ \E k \in GroupIdx : tickGrp[k].status = "error"
  /\ \E n \in 1..Len(tickWrites) : tickWrites[n].failed
  /\ ENABLED SyncEnd

\* An exception left syncOnce in the middle of a group and mainLoop caught it.
C25_WitnessCaught ==
  /\ pc = "sleep"
  /\ gi = 1
  /\ ENABLED SyncEnd

\* The sites a produced value is waiting to be written for.
pendingSites == {wq[i].siteId : i \in 1..Len(wq)}

\* C30: per site, writes go to RDS in the order the debouncer produced the
\* values.  A write is the oldest produced value that is still waiting; a value
\* is produced only when none is waiting; and a tick starts only when the
\* writes of the tick before it are over.
C30_WriteStepsInProducedOrder ==
  [][/\ tickWrites' # tickWrites /\ tickWrites' # <<>> =>
          /\ wq # <<>>
          /\ tickWrites' = Append(tickWrites, tickWrites'[Len(tickWrites')])
          /\ tickWrites'[Len(tickWrites')].siteId = Head(wq).siteId
          /\ tickWrites'[Len(tickWrites')].val = Head(wq).val
          /\ tickWrites'[Len(tickWrites')].at = Head(wq).at
          /\ wq' = Tail(wq)
          /\ clock >= Head(wq).at
     /\ (wq' # wq /\ wq' # <<>> /\ tickWrites' = tickWrites) => wq = <<>>
     /\ (pc' = "start" /\ pc # "start") => wq = <<>>
     /\ pc' = "site" => wq' = <<>>]_vars

C30_OnePendingValuePerSite ==
  /\ Cardinality(pendingSites) = Len(wq)
  /\ \A i \in 1..Len(wq) : wq[i].at <= clock
  /\ \A s \in SiteIds : Cardinality(writesFor(s)) <= 1
  /\ \A s \in pendingSites : writesFor(s) = {}
  /\ \A n \in 1..(Len(tickWrites) - 1) : tickWrites[n].at <= tickWrites[n + 1].at

C30_PerSiteWritesInOrder ==
  /\ C30_WriteStepsInProducedOrder
  /\ []C30_OnePendingValuePerSite

\* A tick that has written all three sites, one of them with a value other than
\* the one the tick before wrote for it.
C30_Witness ==
  /\ tickDone
  /\ Len(tickWrites) = 3
  /\ \E n \in 1..3 :
       /\ tickWrites[n].prev # "none"
       /\ tickWrites[n].prev # boolName(tickWrites[n].val)

maxOf(a, b) == IF a >= b THEN a ELSE b

\* C31: while the sync loop runs, at most one RDS call (the login of syncOnce or
\* a work-site write with the logins and the resend it makes) is in flight, so
\* a write that re-logs in and resends has the session to itself from its
\* start to its end.
C31_WritesHaveTheSessionAlone ==
  [][(tickWrites' # tickWrites /\ tickWrites' # <<>>) =>
       /\ flight.rds = {tickWrites'[Len(tickWrites')].siteId}
       /\ flight'.rds = {}]_vars

C31_AtMostOneCallInFlight ==
  /\ Cardinality(flight.rds) <= 1
  /\ flight.rds # {} => pc \in {"start", "write"}
  /\ "login" \in flight.rds => pc = "start" /\ sessionId = null

C31_OneRequestOnTheSession ==
  /\ C31_WritesHaveTheSessionAlone
  /\ []C31_AtMostOneCallInFlight

\* A write that met an expired session, logged in again and resent its request
\* is over while the next default write of the group has not been started.
C31_Witness ==
  /\ flight.tracked
  /\ tickWrites # <<>>
  /\ tickWrites[Len(tickWrites)].relogin
  /\ wq # <<>>
  /\ flight.rds = {}

\* C32: ticks never overlap.  mainLoop starts a tick only when the syncOnce call
\* of the tick before has settled, sleeping for what is left of
\* POLL_INTERVAL_MS and not at all after a tick that took as long or longer, so
\* that at most one call of syncOnce is unsettled at any time.
C32_TickStartsAfterSettling ==
  [][/\ (pc' = "start" /\ pc # "start") =>
          /\ syncSettled(pc, gi)
          /\ flight'.syncs = 0
          /\ clock' = maxOf(clock, tickStart + POLL_INTERVAL_MS)
     /\ flight'.syncs > flight.syncs => flight.syncs = 0 /\ pc = "start"]_vars

C32_OneSyncAtATime ==
  /\ flight.syncs <= 1
  /\ pc \in {"group", "site", "write", "sleep"} => (flight.tracked => flight.syncs = 1)

C32_TicksNeverOverlap ==
  /\ C32_TickStartsAfterSettling
  /\ []C32_OneSyncAtATime

\* A tick that took two poll intervals has settled and the next one is due at
\* once.
C32_Witness ==
  /\ flight.tracked
  /\ pc = "start"
  /\ flight.syncs = 0
  /\ clock - tickStart = 2 * POLL_INTERVAL_MS
  /\ ENABLED SyncStart \/ ENABLED AwaitRds

\* The client the Map holds for group k (null: none, or no entry yet).
clientOf(ms, k) ==
  IF GROUPS[k].key \in DOMAIN ms THEN ms[GROUPS[k].key].client ELSE null

\* C33: a group has at most one stored client, its own; a connect is issued
\* only when the group's client is absent; and a client is present only after
\* a successful connect and until the next read error, so that a read that
\* ended in an error leaves no client stored.
C33_ConnectOnlyWithoutClient ==
  [][\A k \in GroupIdx :
       /\ (tickGrp'[k] # tickGrp[k] /\ connectsIn(tickGrp'[k].io) # {}) =>
            clientOf(modbusStates, k) = null
       /\ (clientOf(modbusStates', k) # null /\ clientOf(modbusStates, k) = null) =>
            /\ connectsIn(tickGrp'[k].io) # {}
            /\ tickGrp'[k].message # "connect failed"]_vars

C33_ClientIsTheGroupsOwn ==
  \A k \in GroupIdx : clientOf(modbusStates, k) \in {null, k}

C33_NoClientAfterReadError ==
  \A k \in GroupIdx :
    tickGrp[k].status = "error" => clientOf(modbusStates, k) = null

C33_ClientLifecycle ==
  /\ C33_ConnectOnlyWithoutClient
  /\ []C33_ClientIsTheGroupsOwn
  /\ []C33_NoClientAfterReadError

\* The parts of C33 that hold: own client only, connect only without a client,
\* a client only after a successful connect, and no client after a read that
\* was rejected or timed out.
C33_ClientLifecycleButMalformed ==
  /\ C33_ConnectOnlyWithoutClient
  /\ []C33_ClientIsTheGroupsOwn
  /\ [](\A k \in GroupIdx :
          tickGrp[k].status = "error"
            /\ tickGrp[k].message # "invalid readDiscreteInputs response format"
          => clientOf(modbusStates, k) = null)

\* The debounce state of a site is stored and holds the opposite of its default.
heldOpposite(ds, siteId) ==
  siteId \in DOMAIN ds /\ ds[siteId].effectiveVal = ~defaultOf(siteId)

\* C34: with the clock of the loop, which never goes backwards, the branch of
\* updateDebouncedState that keeps the effective value is reached only while it
\* is the default.  Once the opposite has been accepted every further
\* disagreeing sample publishes the opposite again, and the value produced for
\* the site is the default again only on an agreeing sample, a Modbus error or
\* a missing value.
C34_OppositeHoldsWhileDisagreeing ==
  [][/\ clock' >= clock
     /\ \A s \in SiteIds :
          (heldOpposite(debounceStates, s) /\ wq' # wq /\ wq' # <<>>
             /\ \E i \in 1..Len(wq') : wq'[i].siteId = s) =>
            \A i \in 1..Len(wq') :
              wq'[i].siteId = s =>
                /\ wq'[i].raw = boolName(~defaultOf(s)) =>
                     /\ wq'[i].val = ~defaultOf(s)
                     /\ debounceStates'[s] = debounceStates[s]
                /\ wq'[i].val = defaultOf(s) =>
                     wq'[i].raw \in {boolName(defaultOf(s)), "error", "missing"}
     /\ \A s \in SiteIds :
          (/\ pc = "site"
           /\ siteInHand.siteId = s
           /\ s \in DOMAIN debounceStates
           /\ debounceStates[s].lastOppositeStartTs # null
           /\ clock - debounceStates[s].lastOppositeStartTs < FILL_DEBOUNCE_MS) =>
            debounceStates[s].effectiveVal = defaultOf(s)]_vars

\* A site whose opposite state was accepted before is sampled against its
\* default again and the opposite is produced again.
C34_Witness ==
  /\ sampledSite
  /\ Head(wq).raw = boolName(~defaultOf(Head(wq).siteId))
  /\ Head(wq).val = ~defaultOf(Head(wq).siteId)
  /\ published[Head(wq).siteId] = boolName(~defaultOf(Head(wq).siteId))
  /\ clock - debounceStates[Head(wq).siteId].lastOppositeStartTs
       > FILL_DEBOUNCE_MS

\* The call of readInputsForGroup that is due for group k falls inside the
\* backoff window of the exception-based file.
inOldWindow(k) ==
  /\ clientOf(modbusStates, k) = null
  /\ GROUPS[k].key \in DOMAIN modbusStates
  /\ clock - modbusStates[GROUPS[k].key].lastAttemptMs < RECONNECT_BACKOFF_MS

\* C35: in src/modbus-sync-worksites.js a call inside the backoff window throws
\* without I/O and without a change of the connection state, and syncOnce
\* treats it as a communication error: on every tick of the window the debounce
\* state of every site of the group is deleted and every site's default is
\* written.
C35_BackoffThrowIsHandledAsError ==
  [][\A k \in GroupIdx :
       (pc = "group" /\ gi = k /\ inOldWindow(k) /\ tickGrp'[k] # tickGrp[k]) =>
         /\ tickGrp'[k].status = "error"
         /\ tickGrp'[k].io = <<>>
         /\ modbusStates' = modbusStates
         /\ clock' = clock
         /\ \A s \in GroupSiteIds(k) : s \notin DOMAIN debounceStates'
         /\ pc' = "write"
         /\ Len(wq') = Len(GROUPS[k].sites)
         /\ \A i \in 1..Len(wq') :
              /\ wq'[i].siteId = GROUPS[k].sites[i].siteId
              /\ wq'[i].val = defaultOf(wq'[i].siteId)]_vars

C35_BackoffTickWritesDefaults ==
  \A k \in GroupIdx :
    (groupDone(k) /\ tickGrp[k].message = "reconnect backoff") =>
      \A s \in GroupSiteIds(k) :
        /\ Cardinality(writesFor(s)) = 1
        /\ \A n \in writesFor(s) :
             /\ tickWrites[n].val = defaultOf(s)
             /\ tickWrites[n].req = writeRequest(SiteOf(s), defaultOf(s))

C36_OppositeHasStartTime ==
  \A s \in DOMAIN debounceStates :
    /\ debounceStates[s].effectiveVal = ~defaultOf(s) =>
         debounceStates[s].lastOppositeStartTs # null
    /\ debounceStates[s].lastOppositeStartTs = null =>
         debounceStates[s].effectiveVal = defaultOf(s)

\* One site holds the opposite of its default since a start time, while another
\* one has agreed with its default and holds no start time.
C36_Witness ==
  \E s, u \in DOMAIN debounceStates :
    /\ debounceStates[s].effectiveVal = ~defaultOf(s)
    /\ debounceStates[s].lastOppositeStartTs # null
    /\ published[s] = boolName(~defaultOf(s))
    /\ debounceStates[u].lastOppositeStartTs = null
    /\ published[u] = boolName(defaultOf(u))

\* ---------------------------------------------------------------------------
\* The loop under fair scheduling
\* ---------------------------------------------------------------------------

\* The number of poll intervals the fairly scheduled loop is followed for.
MaxFairTicks == 13

\* mainLoop entered at a time of day from which MaxFairTicks poll intervals are
\* followed; the PLC of the single-site group is the one that may misbehave.
InitFair ==
  /\ wildGroup = Len(GROUPS)
  /\ sessionId = null
  /\ debounceStates = EmptyMap
  /\ rdsHolds = [s \in SiteIds |-> "untracked"]
  /\ tickLogin = "untracked"
  /\ flight = noFlight
  /\ clock = MaxTime - MaxFairTicks * POLL_INTERVAL_MS
  /\ modbusStates = EmptyMap
  /\ pc = "start"
  /\ tickStart = clock
  /\ gi = 0
  /\ si = 0
  /\ inputs = <<>>
  /\ wq = <<>>
  /\ tickGrp = noTickGrp
  /\ tickWrites = <<>>
  /\ published = [s \in SiteIds |-> "none"]
  /\ runStart = [s \in SiteIds |-> null]
  /\ lastFail = [k \in GroupIdx |-> noFail]
  /\ apiLast = [kind |-> "none"]
  /\ debLast = [kind |-> "none"]
  /\ proc = procRunning
  /\ cfg = [kind |-> "none"]

\* Every awaited call settles and mainLoop is resumed: a step that stays
\* possible is eventually taken.
SpecFair == InitFair /\ [][Next]_vars /\ WF_vars(Next)

\* C37: if from some tick on every read of a site's group is ok with a bit for
\* the site that disagrees with its default, and ticks keep running, the value
\* published for the site becomes the opposite of its default, and stays so
\* while the disagreeing samples go on.  Within the time followed: a run of
\* such samples that started early enough for FILL_DEBOUNCE_MS and three more
\* poll intervals to pass leads to the opposite being published, unless the
\* run is broken off (which clears its start time).
C37_RunLeadsToOpposite ==
  \A s \in GroupSiteIds(Len(GROUPS)) :
    []((runStart[s] # null
          /\ runStart[s] + FILL_DEBOUNCE_MS + 3 * POLL_INTERVAL_MS <= MaxTime)
         => <>(runStart[s] = null \/ published[s] = boolName(~defaultOf(s))))

C37_OppositeStaysWhileRunLasts ==
  [][\A s \in SiteIds :
       (/\ published[s] = boolName(~defaultOf(s))
        /\ runStart[s] # null
        /\ runStart'[s] = runStart[s]) =>
         published'[s] = boolName(~defaultOf(s))]_vars

C37_SteadyOppositeIsPublished ==
  /\ C37_RunLeadsToOpposite
  /\ C37_OppositeStaysWhileRunLasts

\* The opposite state is published for a site whose run of disagreeing samples
\* has lasted longer than the debounce window and goes on.
C37_Witness ==
  \E s \in SiteIds :
    /\ runStart[s] # null
    /\ clock - runStart[s] >= FILL_DEBOUNCE_MS + POLL_INTERVAL_MS
    /\ published[s] = boolName(~defaultOf(s))
    /\ pc = "start"

\* The times of day followed that are early enough for a whole backoff window and two more poll
\* intervals to pass within the time followed.
EarlyTimes ==
  {t \in (MaxTime - MaxFairTicks * POLL_INTERVAL_MS)..MaxTime :
     /\ t % POLL_INTERVAL_MS = 0
     /\ t + RECONNECT_BACKOFF_MS + 2 * POLL_INTERVAL_MS <= MaxTime}

\* Group k has no client and made its last connect attempt at t.
waitingSince(k, t) ==
  /\ GROUPS[k].key \in DOMAIN modbusStates
  /\ modbusStates[GROUPS[k].key].client = null
  /\ modbusStates[GROUPS[k].key].lastAttemptMs = t

\* A connect of group k issued a whole backoff window or more after t.
connectAfterWindow(k, t) ==
  \E j \in connectsIn(tickGrp[k].io) :
    tickGrp[k].io[j].at >= t + RECONNECT_BACKOFF_MS

\* (Stated of the group whose PLC may refuse a connect or fail a read; the
\* clients of the other groups are never absent after their first connect.)
C38_BackoffEnds ==
  \A t \in EarlyTimes :
    [](waitingSince(Len(GROUPS), t) => <>connectAfterWindow(Len(GROUPS), t))

C38_BackoffReturnKeepsLastAttempt ==
  [][\A k \in GroupIdx :
       (tickGrp'[k] # tickGrp[k] /\ tickGrp'[k].status = "backoff") =>
          /\ GROUPS[k].key \in DOMAIN modbusStates
          /\ modbusStates'[GROUPS[k].key] = modbusStates[GROUPS[k].key]]_vars

\* C38: a group does not stay in backoff forever.  While ticks keep running
\* and the clock advances, a group whose client is absent since an attempt at
\* time t gets a new connect attempt once RECONNECT_BACKOFF_MS has passed
\* since t, because a backoff return leaves lastAttemptMs where it was.
C38_BackoffIsLeft == C38_BackoffEnds /\ C38_BackoffReturnKeepsLastAttempt

C38_Witness ==
  \E k \in GroupIdx : \E t \in EarlyTimes :
    /\ connectAfterWindow(k, t)
    /\ tickGrp[k].prevFail.armedAt = t
    /\ tickDone

\* What the debounce Map holds for a site: whether it has an entry, and which.
debounceOf(ds, sid) ==
  IF sid \in DOMAIN ds THEN <<TRUE, ds[sid]>> ELSE <<FALSE, freshDebounce(FALSE)>>

\* What the Map of Modbus states holds for group k.
modbusOf(ms, k) ==
  IF GROUPS[k].key \in DOMAIN ms THEN <<TRUE, ms[GROUPS[k].key]>>
  ELSE <<FALSE, freshModbusState>>

\* A step on one site (its sample debounced, or its state reset for a missing
\* value) leaves the debounce state of every other site and the connection
\* state of every group as they were.
C39_SiteStepFrame ==
  [][pc = "site" =>
       /\ \A o \in SiteIds \ {GROUPS[gi].sites[si].siteId} :
            debounceOf(debounceStates', o) = debounceOf(debounceStates, o)
       /\ modbusStates' = modbusStates]_vars

\* The read of one group, whatever its outcome (ok, connect or read error with
\* the reset of the group's sites, backoff, reconnect), leaves the connection
\* state of every other group and the debounce state of every site outside
\* the group as they were.
C39_GroupStepFrame ==
  [][(pc = "group" /\ gi <= Len(GROUPS)) =>
       /\ \A k \in GroupIdx \ {gi} :
            modbusOf(modbusStates', k) = modbusOf(modbusStates, k)
       /\ \A o \in SiteIds \ GroupSiteIds(gi) :
            debounceOf(debounceStates', o) = debounceOf(debounceStates, o)]_vars

\* No other step of the loop touches either Map.
C39_OtherStepsFrame ==
  [][(pc \notin {"site", "group"} \/ (pc = "group" /\ gi > Len(GROUPS))) =>
       /\ debounceStates' = debounceStates
       /\ modbusStates' = modbusStates]_vars

\* C39: sites and groups are independent.  Updating or resetting one site's
\* debounce state leaves every other site's debounce state unchanged, and a
\* read error, backoff or reconnect of one group leaves the connection state
\* of every other group and the debounce state of every site outside the
\* group unchanged.
C39_SitesAndGroupsAreIndependent ==
  /\ C39_SiteStepFrame
  /\ C39_GroupStepFrame
  /\ C39_OtherStepsFrame

\* A group's read has just ended in an error and reset its sites while a site
\* of another group has its debounce state stored and that group's client is
\* connected.
C39_WitnessGroup ==
  \E k \in GroupIdx : \E o \in SiteIds \ GroupSiteIds(k) :
    /\ pc = "write" /\ gi = k /\ si = 0
    /\ tickGrp[k].status = "error"
    /\ o \in DOMAIN debounceStates
    /\ clientOf(modbusStates, GroupOfSite(o)) # null

\* A site has just been reset for a missing value while another site of the
\* same group has a run of disagreeing samples under way.
C39_WitnessSite ==
  \E o \in SiteIds :
    /\ pc = "write" /\ si >= 1 /\ wq # <<>>
    /\ Head(wq).raw = "missing"
    /\ o # Head(wq).siteId
    /\ o \in DOMAIN debounceStates
    /\ debounceStates[o].lastOppositeStartTs # null

C39_Witness == C39_WitnessSite

====
